---- MODULE Spec2Model ----
(***************************************************************************)
(* Model of the Chim Non cup dashboard (src/app.py): the standings engine  *)
(* (compute_standings, compute_fairplay), the knockout slot resolver, the  *)
(* round summary and the card/fine pivot.  The sheet tables are the state; *)
(* every action is one change of a sheet followed by the render that       *)
(* recomputes the derived tables from the sheets.                          *)
(***************************************************************************)
EXTENDS Integers, Sequences, FiniteSets, TLC

VARIABLES
    teams_df,      \* worksheet "teams": sequence of rows
    matches_df,    \* worksheet "matches": sequence of rows
    match_cols,    \* header row of worksheet "matches", as written in the sheet
    events_df,     \* worksheet "events": sequence of rows
    players_df,    \* worksheet "players": sequence of rows
    knockout_df,   \* worksheet "knockout": sequence of rows
    grp,           \* the group picked in the fixtures tab ("Chọn bảng")
    standings,     \* the table compute_standings returned at the last render
    fairplay,      \* the dict compute_fairplay returned at the last render
    card_pvt,      \* the card and fine table of the players tab
    bracket,       \* the columns of slot cards of the knockout view
    summary,       \* the round summaries of the grouped-by-round view
    last_row,      \* the sheet row the last change appended
    TEAM_LOGOS,    \* the dict team_id -> logo link of the standings and fixtures tabs
    admin_msg,     \* the message the administrator form showed for the last attempt
    service,       \* the spreadsheet service: its condition and the rows of its worksheets
    cache,         \* st.cache_data of load_worksheet_df: worksheet -> cached result
    client,        \* st.cache_resource of get_gspread_client: TRUE once a client is cached
    now,           \* the clock, in seconds
    pc,            \* the position of the script run
    calls,         \* the operations the dashboard has issued to the spreadsheet service
    notices,       \* the st.info notices on the page of the current run
    rendered,      \* the tabs rendered on the page of the current run
    last_load      \* what the last call of load_worksheet_df did

vars == <<teams_df, matches_df, match_cols, events_df, players_df, knockout_df, grp,
          standings, fairplay, card_pvt, bracket, summary, last_row,
          TEAM_LOGOS, admin_msg, service, cache, client, now, pc, calls, notices,
          rendered, last_load>>

\* the state of the fixtures tab and of the players tab
tab2_vars == <<knockout_df, grp, bracket, summary>>
tab3_vars == <<players_df, fairplay, card_pvt>>

\* the state of the data load and of the page, and what the tab specifications leave alone
load_vars == <<service, cache, client, now, pc, calls, notices, rendered, last_load>>
rest_vars == <<TEAM_LOGOS, admin_msg, load_vars>>

(***************************************************************************)
(* Bounds of the model.                                                    *)
(***************************************************************************)
MaxMatches == 2
MaxResults == 3

(***************************************************************************)
(* Strings.  str.strip() and str.lower() on the cell texts that occur.     *)
(***************************************************************************)
strip(s) ==
    CASE s = "T2 " -> "T2"
      [] s = " FT " -> "FT"
      [] s = "Status " -> "Status"
      [] s = " " -> ""
      [] s = " WINNER M3 " -> "WINNER M3"
      [] s = "ket thuc " -> "ket thuc"
      [] s = " event_type " -> "event_type"
      [] OTHER -> s

lower(s) ==
    CASE s = "Finished" -> "finished"
      [] s = "FT" -> "ft"
      [] s = "Status" -> "status"
      [] s = "Home_Goals" -> "home_goals"
      [] s = "Yellow" -> "yellow"
      [] s = "Bán kết" -> "bán kết"
      [] s = "Chung kết" -> "chung kết"
      [] s = "Tranh hạng 3" -> "tranh hạng 3"
      [] s = "Done" -> "done"
      [] s = "KẾT THÚC" -> "kết thúc"
      [] s = "Team_ID" -> "team_id"
      [] OTHER -> s

upper(s) ==
    CASE s = "a1" -> "A1"
      [] s = "a" -> "A"
      [] s = "b" -> "B"
      [] s = "winner M1" -> "WINNER M1"
      [] OTHER -> s

\* str.title() on the round labels that occur
title(s) ==
    CASE s = "playoff" -> "Playoff"
      [] OTHER -> s

\* str.split(): the words of a slot text
split(s) ==
    CASE s = "" -> <<>>
      [] s = "WINNER M1" -> <<"WINNER", "M1">>
      [] s = "WINNER M2" -> <<"WINNER", "M2">>
      [] s = "WINNER M3" -> <<"WINNER", "M3">>
      [] s = "WINNER M9" -> <<"WINNER", "M9">>
      [] s = "LOSER M1" -> <<"LOSER", "M1">>
      [] s = "LOSER M2" -> <<"LOSER", "M2">>
      [] s = "LOSER M3" -> <<"LOSER", "M3">>
      [] s = "winner M1" -> <<"winner", "M1">>
      [] OTHER -> <<s>>

\* S.startswith(word + " ") for a trimmed text
startswith_word(S, word) == Len(split(S)) >= 2 /\ split(S)[1] = word

\* a letter followed by digits, as text: f"{group}{pos}"
SlotCode(g, n) ==
    CASE g = "A" /\ n = 1 -> "A1"
      [] g = "A" /\ n = 2 -> "A2"
      [] g = "A" /\ n = 3 -> "A3"
      [] g = "B" /\ n = 1 -> "B1"
      [] g = "B" /\ n = 2 -> "B2"
      [] g = "B" /\ n = 3 -> "B3"
      [] OTHER -> ""

\* len(S) in (2,3) and S[0].isalpha() and S[1:].isdigit()
is_position_code(S) == \E g \in {"A", "B"}, n \in 1..3 : S = SlotCode(g, n)

\* c.strip().lower() for c in df.columns
norm_columns(cols) == { lower(strip(c)) : c \in cols }

\* Python's a < b on the team ids that occur (lexicographic order)
SortedIds == <<"T1", "T2", "T3", "T4">>
IdIndex(a) == CHOOSE i \in 1..Len(SortedIds) : SortedIds[i] = a
str_lt(a, b) == IdIndex(a) < IdIndex(b)

(***************************************************************************)
(* pd.to_numeric(..., errors="coerce"): a cell holding digits becomes the  *)
(* number, every other cell (empty, text) becomes NaN.                     *)
(***************************************************************************)
NaN == -1
DigitCells == <<"0", "1", "2", "3">>

\* a plausible slip: the coerced column filled with 0 (fillna(0)) before the played filter
to_numeric_fill0(c) ==
    IF \E i \in 1..Len(DigitCells) : DigitCells[i] = c
    THEN (CHOOSE i \in 1..Len(DigitCells) : DigitCells[i] = c) - 1
    ELSE 0

to_numeric(c) ==
    IF \E i \in 1..Len(DigitCells) : DigitCells[i] = c
    THEN (CHOOSE i \in 1..Len(DigitCells) : DigitCells[i] = c) - 1
    ELSE NaN
notna(v) == v # NaN

Range(s) == { s[i] : i \in 1..Len(s) }

RECURSIVE SelectRows(_, _)
\* df.loc[mask]: the rows whose index is in keep, in table order
SelectRows(rows, keep) ==
    IF rows = <<>> THEN <<>>
    ELSE LET n == Len(rows)
             front == SelectRows(SubSeq(rows, 1, n - 1), keep)
         IN  IF n \in keep THEN Append(front, rows[n]) ELSE front

(***************************************************************************)
(* compute_fairplay                                                        *)
(***************************************************************************)
\* a plausible slip: both red cards worth the 4 points of yellow_plus_direct_red
FairPlayAdd_red4(et) ==
    CASE et = "yellow" -> 1
      [] et = "second_yellow" -> 3
      [] et = "red" -> 4
      [] et = "yellow_plus_direct_red" -> 4
      [] OTHER -> 0

FairPlayAdd(et) ==
    CASE et = "yellow" -> 1
      [] et = "second_yellow" -> 3
      [] et = "red" -> 3
      [] et = "yellow_plus_direct_red" -> 4
      [] OTHER -> 0

\* e.get(key, default) on a row: the cell under the header written exactly so
row_get(e, key, default) == IF key \in DOMAIN e THEN e[key] ELSE default

RECURSIVE FairPlayLoop(_, _)
\* the loop over events_df.iterrows(); pts is the dict built so far
FairPlayLoop(events, pts) ==
    IF events = <<>> THEN pts
    ELSE LET e == Head(events)
             team == strip(row_get(e, "team_id", ""))
             et == lower(strip(row_get(e, "event_type", "")))
             old == IF team \in DOMAIN pts THEN pts[team] ELSE 0
             new == IF team = "" THEN pts
                    ELSE [t \in DOMAIN pts \cup {team} |->
                            IF t = team THEN old + FairPlayAdd(et) ELSE pts[t]]
         IN  FairPlayLoop(Tail(events), new)

compute_fairplay(events) ==
    IF events = <<>> THEN <<>> ELSE FairPlayLoop(events, <<>>)

\* dict.get(key, 0)
get0(d, k) == IF k \in DOMAIN d THEN d[k] ELSE 0

(***************************************************************************)
(* compute_standings: the played filter                                    *)
(***************************************************************************)
FINISHED == {"finished", "kết thúc", "ket thuc", "done", "ft"}
need_cols == {"home_team_id", "away_team_id", "home_goals", "away_goals"}

\* a plausible slip: the status column never consulted
played_mask_any_status(mdf, cols) ==
    { i \in 1..Len(mdf) :
        /\ notna(to_numeric(mdf[i].home_goals))
        /\ notna(to_numeric(mdf[i].away_goals)) }

\* played_mask, as the set of row numbers it selects
played_mask(mdf, cols) ==
    { i \in 1..Len(mdf) :
        /\ ("status" \in norm_columns(cols)) => lower(strip(mdf[i].status)) \in FINISHED
        /\ notna(to_numeric(mdf[i].home_goals))
        /\ notna(to_numeric(mdf[i].away_goals)) }

m_played(mdf, cols) == SelectRows(mdf, played_mask(mdf, cols))

(***************************************************************************)
(* compute_standings: the accounting loop over m_played                    *)
(***************************************************************************)
ZeroStats == [P |-> 0, W |-> 0, D |-> 0, L |-> 0, GF |-> 0, GA |-> 0, GD |-> 0, Pts |-> 0]

\* ensure(team_id) and the reads of stats / points
StatsGet(stats, t) == IF t \in DOMAIN stats THEN stats[t] ELSE ZeroStats

\* points for the result gf-ga seen from the side that scored gf
\* a plausible slip: a win credited with two points
PointsFor_win2(gf, ga) == IF gf > ga THEN 2 ELSE IF gf = ga THEN 1 ELSE 0

PointsFor(gf, ga) == IF gf > ga THEN 3 ELSE IF gf = ga THEN 1 ELSE 0

\* a plausible slip: the goal difference taken before the goals against are added
Credit_gd_stale(s, gf, ga) ==
    [P   |-> s.P + 1,
     W   |-> s.W + (IF gf > ga THEN 1 ELSE 0),
     D   |-> s.D + (IF gf = ga THEN 1 ELSE 0),
     L   |-> s.L + (IF gf < ga THEN 1 ELSE 0),
     GF  |-> s.GF + gf,
     GA  |-> s.GA + ga,
     GD  |-> (s.GF + gf) - s.GA,
     Pts |-> s.Pts + PointsFor(gf, ga)]

\* the counters of one side after a played match it scored gf and conceded ga in
Credit(s, gf, ga) ==
    [P   |-> s.P + 1,
     W   |-> s.W + (IF gf > ga THEN 1 ELSE 0),
     D   |-> s.D + (IF gf = ga THEN 1 ELSE 0),
     L   |-> s.L + (IF gf < ga THEN 1 ELSE 0),
     GF  |-> s.GF + gf,
     GA  |-> s.GA + ga,
     GD  |-> (s.GF + gf) - (s.GA + ga),
     Pts |-> s.Pts + PointsFor(gf, ga)]

RECURSIVE StatsLoop_away_unswapped(_, _)
\* a plausible slip: the away side credited with the score as the home side sees it
StatsLoop_away_unswapped(rows, stats) ==
    IF rows = <<>> THEN stats
    ELSE LET r == Head(rows)
             h == strip(r.home_team_id)
             a == strip(r.away_team_id)
             hg == to_numeric(r.home_goals)
             ag == to_numeric(r.away_goals)
             s1 == [t \in DOMAIN stats \cup {h, a} |-> StatsGet(stats, t)]
             s2 == [s1 EXCEPT ![h] = Credit(s1[h], hg, ag)]
             s3 == [s2 EXCEPT ![a] = Credit(s2[a], hg, ag)]
         IN  StatsLoop_away_unswapped(Tail(rows), s3)

RECURSIVE StatsLoop(_, _)
\* the loop over m_played.iterrows(); stats holds stats and points of every team seen
StatsLoop(rows, stats) ==
    IF rows = <<>> THEN stats
    ELSE LET r == Head(rows)
             h == strip(r.home_team_id)
             a == strip(r.away_team_id)
             hg == to_numeric(r.home_goals)
             ag == to_numeric(r.away_goals)
             s1 == [t \in DOMAIN stats \cup {h, a} |-> StatsGet(stats, t)]
             s2 == [s1 EXCEPT ![h] = Credit(s1[h], hg, ag)]
             s3 == [s2 EXCEPT ![a] = Credit(s2[a], ag, hg)]
         IN  StatsLoop(Tail(rows), s3)

(***************************************************************************)
(* compute_standings: one output row per team of the Team table            *)
(***************************************************************************)
RECURSIVE BuildRows(_, _, _)
BuildRows(tdf, stats, fair) ==
    IF tdf = <<>> THEN <<>>
    ELSE LET tr == Head(tdf)
             tid == strip(tr.team_id)
             s == StatsGet(stats, tid)
             row == [TeamID |-> tid, Doi |-> tr.team_name,
                     Tran |-> s.P, Thang |-> s.W, Hoa |-> s.D, Thua |-> s.L,
                     BT |-> s.GF, BB |-> s.GA, HS |-> s.GD,
                     Diem |-> s.Pts, FairPlay |-> get0(fair, tid)]
             rest == BuildRows(Tail(tdf), stats, fair)
         IN  IF tid = "" THEN rest ELSE <<row>> \o rest

(***************************************************************************)
(* compute_standings: head_to_head and cmp                                 *)
(***************************************************************************)
\* the mini-table of t1 against t2 over the played rows between the two
RECURSIVE H2HLoop(_, _, _, _)
H2HLoop(sub, t1, t2, acc) ==
    IF sub = <<>> THEN acc
    ELSE LET m == Head(sub)
             h == strip(m.home_team_id)
             hg == to_numeric(m.home_goals)
             ag == to_numeric(m.away_goals)
             g1 == IF h = t1 THEN hg ELSE ag
             g2 == IF h = t1 THEN ag ELSE hg
             nxt == [pts1 |-> acc.pts1 + PointsFor(g1, g2),
                     pts2 |-> acc.pts2 + PointsFor(g2, g1),
                     gd1 |-> acc.gd1 + (g1 - g2), gd2 |-> acc.gd2 + (g2 - g1),
                     gf1 |-> acc.gf1 + g1, gf2 |-> acc.gf2 + g2]
         IN  H2HLoop(Tail(sub), t1, t2, nxt)

head_to_head(played, t1, t2) ==
    LET sub == SelectRows(played,
                 { i \in 1..Len(played) :
                     LET h == strip(played[i].home_team_id)
                         a == strip(played[i].away_team_id)
                     IN  (h = t1 /\ a = t2) \/ (h = t2 /\ a = t1) })
        r == H2HLoop(sub, t1, t2,
                     [pts1 |-> 0, pts2 |-> 0, gd1 |-> 0, gd2 |-> 0, gf1 |-> 0, gf2 |-> 0])
    IN  IF sub = <<>> THEN 0
        ELSE IF r.pts1 # r.pts2 THEN (IF r.pts1 > r.pts2 THEN 1 ELSE -1)
        ELSE IF r.gd1 # r.gd2 THEN (IF r.gd1 > r.gd2 THEN 1 ELSE -1)
        ELSE IF r.gf1 # r.gf2 THEN (IF r.gf1 > r.gf2 THEN 1 ELSE -1)
        ELSE 0

\* by_id.at[tid, col]
RowOf(rows, tid) == rows[CHOOSE i \in 1..Len(rows) : rows[i].TeamID = tid]

\* a plausible slip: the head-to-head result returned without the sign flip of line 335
cmp_h2h_sign(played, rows, a, b) ==
    LET hh == head_to_head(played, a, b)
        ra == RowOf(rows, a)
        rb == RowOf(rows, b)
    IN  IF hh # 0 THEN hh
        ELSE IF ra.HS # rb.HS THEN (IF ra.HS > rb.HS THEN -1 ELSE 1)
        ELSE IF ra.BT # rb.BT THEN (IF ra.BT > rb.BT THEN -1 ELSE 1)
        ELSE IF ra.FairPlay # rb.FairPlay THEN (IF ra.FairPlay < rb.FairPlay THEN -1 ELSE 1)
        ELSE IF str_lt(a, b) THEN -1 ELSE IF str_lt(b, a) THEN 1 ELSE 0

\* a variant: league points compared after the head-to-head, before the goal difference
cmp_with_points(played, rows, a, b) ==
    LET hh == head_to_head(played, a, b)
        ra == RowOf(rows, a)
        rb == RowOf(rows, b)
    IN  IF hh # 0 THEN -hh
        ELSE IF ra.Diem # rb.Diem THEN (IF ra.Diem > rb.Diem THEN -1 ELSE 1)
        ELSE IF ra.HS # rb.HS THEN (IF ra.HS > rb.HS THEN -1 ELSE 1)
        ELSE IF ra.BT # rb.BT THEN (IF ra.BT > rb.BT THEN -1 ELSE 1)
        ELSE IF ra.FairPlay # rb.FairPlay THEN (IF ra.FairPlay < rb.FairPlay THEN -1 ELSE 1)
        ELSE IF str_lt(a, b) THEN -1 ELSE IF str_lt(b, a) THEN 1 ELSE 0

cmp(played, rows, a, b) ==
    LET hh == head_to_head(played, a, b)
        ra == RowOf(rows, a)
        rb == RowOf(rows, b)
    IN  IF hh # 0 THEN -hh
        ELSE IF ra.HS # rb.HS THEN (IF ra.HS > rb.HS THEN -1 ELSE 1)
        ELSE IF ra.BT # rb.BT THEN (IF ra.BT > rb.BT THEN -1 ELSE 1)
        ELSE IF ra.FairPlay # rb.FairPlay THEN (IF ra.FairPlay < rb.FairPlay THEN -1 ELSE 1)
        ELSE IF str_lt(a, b) THEN -1 ELSE IF str_lt(b, a) THEN 1 ELSE 0

(***************************************************************************)
(* sorted(ids, key=cmp_to_key(cmp)): CPython's list.sort on a short list:  *)
(* count_run finds the leading run (reversed when strictly descending),    *)
(* binarysort inserts the remaining elements.  lt[x, y] is cmp(x, y) < 0.  *)
(***************************************************************************)
Reverse(s) == [i \in 1..Len(s) |-> s[Len(s) + 1 - i]]

count_run(l, lt) ==
    LET desc == lt[l[2], l[1]]
        n == CHOOSE k \in 2..Len(l) :
                /\ \A i \in 2..k : lt[l[i], l[i - 1]] = desc
                /\ (k = Len(l) \/ lt[l[k + 1], l[k]] # desc)
    IN  [descending |-> desc, n |-> n]

RECURSIVE BinPos(_, _, _, _, _)
\* the binary search of binarysort: where pivot goes in the sorted prefix l[lo..hi-1]
BinPos(l, lt, pivot, lo, hi) ==
    IF lo >= hi THEN lo
    ELSE LET p == lo + ((hi - lo) \div 2)
         IN  IF lt[pivot, l[p]] THEN BinPos(l, lt, pivot, lo, p)
             ELSE BinPos(l, lt, pivot, p + 1, hi)

RECURSIVE binarysort(_, _, _)
\* l[1..start-1] is sorted; insert l[start], l[start+1], ... in turn
binarysort(l, lt, start) ==
    IF start > Len(l) THEN l
    ELSE LET pivot == l[start]
             pos == BinPos(l, lt, pivot, 1, start)
             moved == SubSeq(l, 1, pos - 1) \o <<pivot>> \o SubSeq(l, pos, start - 1)
                        \o SubSeq(l, start + 1, Len(l))
         IN  binarysort(moved, lt, start + 1)

list_sort(l, lt) ==
    IF Len(l) < 2 THEN l
    ELSE LET run == count_run(l, lt)
             head == SubSeq(l, 1, run.n)
             first == (IF run.descending THEN Reverse(head) ELSE head)
                        \o SubSeq(l, run.n + 1, Len(l))
         IN  binarysort(first, lt, run.n + 1)

(***************************************************************************)
(* compute_standings                                                       *)
(***************************************************************************)
\* df.set_index("Team ID").loc[order].reset_index() and the rank column Hạng
\* a plausible slip: ranks counted from 0 (range(len(df)))
Ranked_from0(rows, order) ==
    [i \in 1..Len(order) |->
        [Hang |-> i - 1] @@ RowOf(rows, order[i])]

Ranked(rows, order) ==
    [i \in 1..Len(order) |->
        [Hang |-> i] @@ RowOf(rows, order[i])]

compute_standings(tdf, mdf, cols, edf) ==
    IF tdf = <<>> \/ mdf = <<>> THEN <<>>
    ELSE IF ~(need_cols \subseteq norm_columns(cols)) THEN <<>>
    ELSE LET played == m_played(mdf, cols)
             stats == StatsLoop(played, <<>>)
             fair == compute_fairplay(edf)
             rows == BuildRows(tdf, stats, fair)
             ids == [i \in 1..Len(rows) |-> rows[i].TeamID]
             lt == [p \in Range(ids) \X Range(ids) |-> cmp(played, rows, p[1], p[2]) < 0]
         IN  IF rows = <<>> THEN <<>>
             ELSE Ranked(rows, list_sort(ids, lt))

(***************************************************************************)
(* The sheets of one group.  Team tables: the three teams, a table with    *)
(* only two of them, and a table with a padded id and a row without id.    *)
(***************************************************************************)
TeamRow(id, name) == [team_id |-> id, team_name |-> name, group |-> "A"]

TeamTables ==
    { <<TeamRow("T1", "Alpha"), TeamRow("T2", "Bravo"), TeamRow("T3", "Charlie")>>,
      <<TeamRow("T3", "Charlie"), TeamRow("T1", "Alpha")>>,
      <<TeamRow("T2 ", "Bravo"), TeamRow(" ", "Nobody"), TeamRow("T1", "Alpha")>> }

\* header rows of the matches sheet: all columns, no status column, no away_goals column
MatchHeaders ==
    { {"home_team_id", "away_team_id", "Home_Goals", "away_goals", "Status "},
      {"home_team_id", "away_team_id", "home_goals", "away_goals"},
      {"home_team_id", "away_team_id", "home_goals", "status"} }

\* the score and status cells a new match row can carry
ResultCells ==
    { <<"2", "1", "Finished">>, <<"0", "2", "finished">>, <<"1", "1", " FT ">>,
      <<"", "", "scheduled">>, <<"", "", "Finished">>, <<"x", "x", "finished">>,
      <<"2", "1", "live">> }

MatchTeams == {"T1", "T2", "T3"}

EventRow(t, p, et) == [team_id |-> t, player_id |-> p, event_type |-> et]

\* the events sheet of the group: empty, or with cards already logged
EventTables ==
    { <<>>,
      <<EventRow("T1", "P1", "red")>>,
      <<EventRow("T2", "P3", "Yellow"), EventRow("T3", "P5", "goal")>> }

MatchRow(h, a, c) ==
    [home_team_id |-> h, away_team_id |-> a,
     home_goals |-> c[1], away_goals |-> c[2], status |-> c[3]]

NoRow == MatchRow("", "", <<"", "", "">>)

\* the views a specification does not follow stay as before their first render
AllGroups == "Tất cả"
Tab1Idle == standings = <<>>
Tab2Idle == knockout_df = <<>> /\ grp = AllGroups /\ bracket = <<>> /\ summary = <<>>
Tab3Idle == players_df = <<>> /\ fairplay = <<>> /\ card_pvt = <<>>
LoadIdle ==
    /\ service = <<>> /\ cache = <<>> /\ client = FALSE /\ now = 0 /\ pc = 0
    /\ calls = {} /\ notices = {} /\ rendered = {} /\ last_load = <<>>
RestIdle == TEAM_LOGOS = <<>> /\ admin_msg = "" /\ LoadIdle

Init ==
    /\ teams_df \in TeamTables
    /\ match_cols \in MatchHeaders
    /\ matches_df = <<>>
    /\ events_df \in EventTables
    /\ last_row = NoRow
    /\ standings = compute_standings(teams_df, matches_df, match_cols, events_df)
    /\ Tab2Idle
    /\ Tab3Idle
    /\ RestIdle

\* a row is appended to the matches sheet and the standings tab is rendered again
AddMatch ==
    /\ Len(matches_df) < MaxMatches
    /\ \E h \in MatchTeams, a \in MatchTeams, c \in ResultCells :
          /\ h # a
          /\ matches_df' = Append(matches_df, MatchRow(h, a, c))
          /\ last_row' = MatchRow(h, a, c)
    /\ standings' = compute_standings(teams_df, matches_df', match_cols, events_df)
    /\ UNCHANGED <<teams_df, match_cols, events_df, tab2_vars, tab3_vars, rest_vars>>

Next == AddMatch

Spec == Init /\ [][Next]_vars

(***************************************************************************)
(* Properties of the standings accounting (specification Spec).            *)
(***************************************************************************)
\* the number a goals cell shows, read off the sheet text
CellNumber == [c \in {"0", "1", "2", "3"} |->
                 CASE c = "0" -> 0 [] c = "1" -> 1 [] c = "2" -> 2 [] c = "3" -> 3]
IsNumberCell(c) == c \in DOMAIN CellNumber
FinishedTexts == {"finished", "Finished", "FT", " FT ", "ft", "done", "ket thuc", "kết thúc"}

HasRow(tbl, tid) == \E i \in 1..Len(tbl) : tbl[i].TeamID = tid

\* the counters of a team in a standings table; a team the table has no row for has
\* nothing counted (the default compute_standings itself uses for a team without stats)
Counters(tbl, tid) ==
    IF HasRow(tbl, tid)
    THEN LET r == RowOf(tbl, tid)
         IN  [Tran |-> r.Tran, Thang |-> r.Thang, Hoa |-> r.Hoa, Thua |-> r.Thua,
              BT |-> r.BT, BB |-> r.BB, HS |-> r.HS, Diem |-> r.Diem]
    ELSE [Tran |-> 0, Thang |-> 0, Hoa |-> 0, Thua |-> 0,
          BT |-> 0, BB |-> 0, HS |-> 0, Diem |-> 0]

\* counters c after one more match: w wins, d draws, l losses, gf scored, ga conceded, p points
Gain(c, w, d, l, gf, ga, p) ==
    [Tran |-> c.Tran + 1, Thang |-> c.Thang + w, Hoa |-> c.Hoa + d, Thua |-> c.Thua + l,
     BT |-> c.BT + gf, BB |-> c.BB + ga, HS |-> c.HS + gf - ga, Diem |-> c.Diem + p]

RowAdded == matches_df' = Append(matches_df, last_row')
HeadersComplete == need_cols \subseteq norm_columns(match_cols)
HasStatusColumn == "status" \in norm_columns(match_cols)

\* C1: a finished match with both goals present that the home side wins adds to the
\* home team exactly 1 played, 1 win, 3 points, GF+home_goals, GA+away_goals and to the
\* away team 1 played, 1 loss, 0 points, GF+away_goals, GA+home_goals; a drawn one adds
\* 1 played, 1 draw, 1 point to each side; the counters of every other team stay as
\* they were.
C1_PointsArithmetic ==
    [][ (RowAdded /\ HeadersComplete /\ HasStatusColumn
           /\ last_row'.status \in FinishedTexts
           /\ IsNumberCell(last_row'.home_goals) /\ IsNumberCell(last_row'.away_goals))
        => LET h == last_row'.home_team_id
               a == last_row'.away_team_id
               hg == CellNumber[last_row'.home_goals]
               ag == CellNumber[last_row'.away_goals]
           IN  /\ (hg > ag /\ HasRow(standings', h)) =>
                     Counters(standings', h) = Gain(Counters(standings, h), 1, 0, 0, hg, ag, 3)
               /\ (hg > ag /\ HasRow(standings', a)) =>
                     Counters(standings', a) = Gain(Counters(standings, a), 0, 0, 1, ag, hg, 0)
               /\ (hg = ag /\ HasRow(standings', h)) =>
                     Counters(standings', h) = Gain(Counters(standings, h), 0, 1, 0, hg, ag, 1)
               /\ (hg = ag /\ HasRow(standings', a)) =>
                     Counters(standings', a) = Gain(Counters(standings, a), 0, 1, 0, ag, hg, 1)
               /\ \A t \in MatchTeams \ {h, a} :
                     Counters(standings', t) = Counters(standings, t)
      ]_vars

\* C1 witness: a second row, a finished 2-1, has been added and the home team's row
\* shows the win on top of an earlier played match
C1_Witness ==
    /\ Len(matches_df) = 2
    /\ HeadersComplete /\ HasStatusColumn
    /\ last_row = matches_df[2]
    /\ last_row.home_goals = "2" /\ last_row.away_goals = "1"
    /\ last_row.status = "Finished"
    /\ HasRow(standings, last_row.home_team_id)
    /\ HasRow(standings, last_row.away_team_id)
    /\ Counters(standings, last_row.home_team_id).Tran = 2
    /\ Counters(standings, last_row.home_team_id).Diem >= 3

ScheduledUnscored(r) == r.status = "scheduled" /\ r.home_goals = "" /\ r.away_goals = ""

\* C3: adding a match row with status "scheduled" and both goals absent leaves the
\* table compute_standings returns identical, also when the matches sheet was empty
C3_ScheduledRowChangesNothing ==
    [][ (RowAdded /\ HasStatusColumn /\ ScheduledUnscored(last_row'))
        => standings' = standings ]_vars

NonNumericCells == {"", "x"}

\* C4: a match row whose two goal cells are absent or non-numeric is never counted as a
\* 0-0 draw, whatever its status: played, drawn and points of both of its teams are
\* what they are without the row
C4_NoZeroFill ==
    [][ (RowAdded /\ last_row'.home_goals \in NonNumericCells
                  /\ last_row'.away_goals \in NonNumericCells)
        => \A t \in {last_row'.home_team_id, last_row'.away_team_id} :
              /\ Counters(standings', t).Tran = Counters(standings, t).Tran
              /\ Counters(standings', t).Hoa = Counters(standings, t).Hoa
              /\ Counters(standings', t).Diem = Counters(standings, t).Diem
      ]_vars

\* C4 witness: a row with a finished status and no numeric goals sits in the sheet next
\* to a played match, and its teams are in the table
C4_Witness ==
    /\ Len(matches_df) = 2
    /\ HeadersComplete /\ HasStatusColumn
    /\ last_row = matches_df[2]
    /\ last_row.status \in FinishedTexts
    /\ last_row.home_goals \in NonNumericCells /\ last_row.away_goals \in NonNumericCells
    /\ HasRow(standings, last_row.home_team_id)
    /\ HasRow(standings, last_row.away_team_id)
    /\ Counters(standings, last_row.home_team_id).Tran = 1

\* the ids of the Team table that name a team
NamedTeams == { strip(teams_df[i].team_id) : i \in 1..Len(teams_df) } \ {""}

\* C5: whenever the required match columns exist the standings have exactly one row for
\* every team of the Team table with a non-empty id, also without any match row
C5_OneRowPerTeam ==
    HeadersComplete =>
        /\ { standings[i].TeamID : i \in 1..Len(standings) } = NamedTeams
        /\ Len(standings) = Cardinality(NamedTeams)

(***************************************************************************)
(* Specification SpecRank: the ranking of one group of three teams.  The   *)
(* Team table is the three teams in any row order; every match row is a    *)
(* finished result.                                                        *)
(***************************************************************************)
RECURSIVE Perms(_)
\* the row orders of a set of rows
Perms(S) ==
    IF S = {} THEN { <<>> }
    ELSE UNION { { <<x>> \o p : p \in Perms(S \ {x}) } : x \in S }

GroupRows == { TeamRow("T1", "Alpha"), TeamRow("T2", "Bravo"), TeamRow("T3", "Charlie") }

FullHeader == {"home_team_id", "away_team_id", "home_goals", "away_goals", "status"}

\* the finished results a row can record
FinalScores == { <<"2", "0", "finished">>, <<"0", "2", "finished">>, <<"1", "1", "finished">> }

\* the events sheet of the group: one red card for T1
GroupCards == <<EventRow("T1", "P1", "red")>>

InitRank ==
    /\ teams_df \in Perms(GroupRows)
    /\ match_cols = FullHeader
    /\ matches_df = <<>>
    /\ events_df = GroupCards
    /\ last_row = NoRow
    /\ standings = compute_standings(teams_df, matches_df, match_cols, events_df)
    /\ Tab2Idle
    /\ Tab3Idle
    /\ RestIdle

\* a finished result is appended to the matches sheet and the standings are rendered again
AddResult ==
    /\ Len(matches_df) < MaxResults
    /\ \E h \in MatchTeams, a \in MatchTeams, c \in FinalScores :
          /\ h # a
          /\ matches_df' = Append(matches_df, MatchRow(h, a, c))
          /\ last_row' = MatchRow(h, a, c)
    /\ standings' = compute_standings(teams_df, matches_df', match_cols, events_df)
    /\ UNCHANGED <<teams_df, match_cols, events_df, tab2_vars, tab3_vars, rest_vars>>

NextRank == AddResult

SpecRank == InitRank /\ [][NextRank]_vars

(***************************************************************************)
(* Properties of the ranking (specification SpecRank).                     *)
(***************************************************************************)
RankOf(tbl, tid) == RowOf(tbl, tid).Hang

\* the match rows between two teams
RowsBetween(x, y) ==
    { i \in 1..Len(matches_df) :
        {matches_df[i].home_team_id, matches_df[i].away_team_id} = {x, y} }

\* x beat y 2-0 in the one match the two have played
BeatTwoNil(x, y) ==
    /\ Cardinality(RowsBetween(x, y)) = 1
    /\ \A i \in RowsBetween(x, y) :
          \/ /\ matches_df[i].home_team_id = x
             /\ matches_df[i].home_goals = "2" /\ matches_df[i].away_goals = "0"
          \/ /\ matches_df[i].away_team_id = x
             /\ matches_df[i].home_goals = "0" /\ matches_df[i].away_goals = "2"

TiedOnSeason(x, y) ==
    /\ RowOf(standings, x).Diem = RowOf(standings, y).Diem
    /\ RowOf(standings, x).HS = RowOf(standings, y).HS
    /\ RowOf(standings, x).BT = RowOf(standings, y).BT

\* C2 as claimed: three teams tied on season points, goal difference and goals-for,
\* A beat B 2-0 in their match: A is ranked strictly above B, whatever C's results and
\* whatever the row order of the Team table
C2_HeadToHeadAsClaimed ==
    \A x \in MatchTeams, y \in MatchTeams, z \in MatchTeams :
        (/\ Cardinality({x, y, z}) = 3
         /\ standings # <<>>
         /\ TiedOnSeason(x, y) /\ TiedOnSeason(y, z)
         /\ BeatTwoNil(x, y))
        => RankOf(standings, x) < RankOf(standings, y)

\* the pairwise order compute_standings sorts by, on the teams of the group
BeforeTable ==
    LET played == m_played(matches_df, match_cols)
    IN  [p \in MatchTeams \X MatchTeams |-> cmp(played, standings, p[1], p[2]) < 0]

NoCycle ==
    LET before == BeforeTable
    IN  \A x \in MatchTeams : \A y \in MatchTeams \ {x} :
            before[x, y] => \A z \in MatchTeams \ {y} : before[y, z] => before[x, z]

\* C2 amended: A beat B 2-0 in their one played match: A is ranked strictly above B,
\* whatever the row order of the Team table, provided the pairwise order of the group's
\* teams has no cycle
C2_HeadToHeadNoCycle ==
    (standings # <<>> /\ (\E x \in MatchTeams, y \in MatchTeams : BeatTwoNil(x, y)) /\ NoCycle)
    => \A x \in MatchTeams, y \in MatchTeams :
          BeatTwoNil(x, y) => RankOf(standings, x) < RankOf(standings, y)

\* C2 witness: T3 beat T1 2-0, T1 has scored more over the season and has the smaller
\* id, no cycle, and T3 is ranked first in a table whose rows start with T1
C2_Witness ==
    /\ standings # <<>>
    /\ teams_df[1].team_id = "T1"
    /\ BeatTwoNil("T3", "T1")
    /\ NoCycle
    /\ RowOf(standings, "T1").BT > RowOf(standings, "T3").BT
    /\ RowOf(standings, "T1").HS = RowOf(standings, "T3").HS
    /\ RankOf(standings, "T3") = 1
    /\ RankOf(standings, "T1") = 2

\* C24: the rank of every team is the same for every order of the rows of the
\* teams sheet.
C24_OrderIndependence ==
    standings # <<>> =>
        \A p \in Perms(Range(teams_df)) :
            LET other == compute_standings(p, matches_df, match_cols, events_df)
            IN  \A i \in 1..Len(standings) :
                    RankOf(other, standings[i].TeamID) = standings[i].Hang

(***************************************************************************)
(* The players tab: cards and fines per player (tab3, right column).       *)
(***************************************************************************)
FINE_YELLOW == 200000
FINE_SECOND_YELLOW == 300000
FINE_RED == 500000
FINE_YPR == 700000

card_types == <<"yellow", "red", "second_yellow", "yellow_plus_direct_red">>

\* Python's order of the player ids that occur
SortedPlayers == <<"P1", "P2", "P3">>

\* the cell of a merged row that has no partner in pmini
NaNCell == "NaN"

RECURSIVE name_map_loop(_, _)
\* dict(zip(tdf.team_id, tdf.team_name)): a later row replaces an earlier one
name_map_loop(tdf, d) ==
    IF tdf = <<>> THEN d
    ELSE LET r == Head(tdf)
         IN  name_map_loop(Tail(tdf),
                 [k \in DOMAIN d \cup {r.team_id} |->
                     IF k = r.team_id THEN r.team_name ELSE d[k]])

name_map(tdf) == name_map_loop(tdf, <<>>)

\* name_map.get(k, k), and Series.map(name_map).fillna(series)
name_of(names, k) == IF k \in DOMAIN names THEN names[k] ELSE k

\* pmini: the players with the display name of their team
pmini(pdf, tdf) ==
    [i \in 1..Len(pdf) |->
        [player_id |-> pdf[i].player_id, player_name |-> pdf[i].player_name,
         team_id |-> pdf[i].team_id, Doi |-> name_of(name_map(tdf), pdf[i].team_id)]]

\* ev[ev.event_type.isin(card_types)]: the event type is compared as written
is_card(e) == e.event_type \in Range(card_types)

RECURSIVE pivot_size(_, _, _)
\* aggfunc="size": the number of rows of cards with this player and this type
pivot_size(cards, p, t) ==
    IF cards = <<>> THEN 0
    ELSE (IF Head(cards).player_id = p /\ Head(cards).event_type = t THEN 1 ELSE 0)
         + pivot_size(Tail(cards), p, t)

\* pivot_table(index="player_id", columns="event_type", fill_value=0), then the
\* columns that did not occur added as 0: one row per player, in index order
pivot_table(cards) ==
    LET present == { cards[i].event_type : i \in 1..Len(cards) }
        index == SelectSeq(SortedPlayers,
                           LAMBDA p : \E i \in 1..Len(cards) : cards[i].player_id = p)
        cell(p, t) == IF t \in present THEN pivot_size(cards, p, t) ELSE 0
    IN  [i \in 1..Len(index) |->
            [player_id |-> index[i],
             yellow |-> cell(index[i], "yellow"),
             second_yellow |-> cell(index[i], "second_yellow"),
             red |-> cell(index[i], "red"),
             yellow_plus_direct_red |-> cell(index[i], "yellow_plus_direct_red")]]

\* a plausible slip: yellow_plus_direct_red fined as a direct red only (the 500k of the note)
card_fine_ypr500(r) ==
    r.yellow * FINE_YELLOW + r.second_yellow * FINE_SECOND_YELLOW
    + r.red * FINE_RED + r.yellow_plus_direct_red * FINE_RED

\* card_pvt["Tiền phạt"]
card_fine(r) ==
    r.yellow * FINE_YELLOW + r.second_yellow * FINE_SECOND_YELLOW
    + r.red * FINE_RED + r.yellow_plus_direct_red * FINE_YPR

\* one row of pmini.merge(card_pvt, how="right", on="player_id") with its fine
fine_row(r, who, team) ==
    [player_id |-> r.player_id, player_name |-> who, Doi |-> team,
     yellow |-> r.yellow, second_yellow |-> r.second_yellow, red |-> r.red,
     yellow_plus_direct_red |-> r.yellow_plus_direct_red, TienPhat |-> card_fine(r)]

RECURSIVE merge_right(_, _)
\* pmini.merge(card_pvt, how="right"): every pivot row once per pmini row of the
\* player, in pivot order; a player missing from pmini keeps one row with NaN cells
merge_right(pm, pvt) ==
    IF pvt = <<>> THEN <<>>
    ELSE LET r == Head(pvt)
             partners == SelectSeq(pm, LAMBDA q : q.player_id = r.player_id)
             rows == IF partners = <<>> THEN << fine_row(r, NaNCell, NaNCell) >>
                     ELSE [i \in 1..Len(partners) |->
                              fine_row(r, partners[i].player_name, partners[i].Doi)]
         IN  rows \o merge_right(pm, Tail(pvt))

\* the card and fine table of the players tab; no table when the events sheet
\* is empty or holds no card
card_table(edf, pdf, tdf) ==
    IF edf = <<>> THEN <<>>
    ELSE LET cards == SelectSeq(edf, is_card)
         IN  IF cards = <<>> THEN <<>>
             ELSE merge_right(pmini(pdf, tdf), pivot_table(cards))

\* the teams offered by the filter "Lọc thẻ & tiền phạt theo đội", after "Tất cả":
\* the team names of pmini, without the missing ones
teams_list(pm) == { pm[i].Doi : i \in 1..Len(pm) } \ {NaNCell}

\* show_fines: the fine table under a choice of the filter
show_fines(tbl, pick_team) ==
    IF pick_team = AllGroups THEN tbl
    ELSE SelectSeq(tbl, LAMBDA r : r.Doi = pick_team)

RECURSIVE fine_sum(_)
\* show_fines["Tiền phạt"].sum()
fine_sum(tbl) == IF tbl = <<>> THEN 0 ELSE Head(tbl).TienPhat + fine_sum(Tail(tbl))

total_fine(tbl, pick_team) == fine_sum(show_fines(tbl, pick_team))

(***************************************************************************)
(* Specification SpecFair: cards are logged to the events sheet; the       *)
(* fair-play points of the teams and the fines of the players follow.      *)
(***************************************************************************)
MaxEvents == 3

PlayerRow(p, n, t) == [player_id |-> p, player_name |-> n, team_id |-> t]

\* two teams, one registered player each; P3 plays without being registered
FairTeams == << TeamRow("T1", "Alpha"), TeamRow("T2", "Bravo") >>
FairPlayers == << PlayerRow("P1", "An", "T1"), PlayerRow("P2", "Binh", "T2") >>

\* the team and player cells of a new event row
CardHolders == { <<"T1", "P1">>, <<"T2 ", "P2">>, <<"", "P3">> }

\* the event_type cells of a new event row
EventTexts ==
    { "yellow", "Yellow", "second_yellow", "red", "yellow_plus_direct_red",
      "goal", "own_goal", "unknown" }

NoEvent == EventRow("", "", "")

InitFair ==
    /\ teams_df = FairTeams
    /\ players_df = FairPlayers
    /\ events_df = <<>>
    /\ matches_df = <<>>
    /\ match_cols = {}
    /\ last_row = NoEvent
    /\ fairplay = compute_fairplay(events_df)
    /\ card_pvt = card_table(events_df, players_df, teams_df)
    /\ Tab1Idle
    /\ Tab2Idle
    /\ RestIdle

\* a row is appended to the events sheet; fair play and fines are computed again
AddEvent ==
    /\ Len(events_df) < MaxEvents
    /\ \E h \in CardHolders, et \in EventTexts :
          /\ events_df' = Append(events_df, EventRow(h[1], h[2], et))
          /\ last_row' = EventRow(h[1], h[2], et)
    /\ fairplay' = compute_fairplay(events_df')
    /\ card_pvt' = card_table(events_df', players_df, teams_df)
    /\ UNCHANGED <<teams_df, players_df, matches_df, match_cols, standings, tab2_vars, rest_vars>>

NextFair == AddEvent

SpecFair == InitFair /\ [][NextFair]_vars

(***************************************************************************)
(* Properties of fair play and fines (specification SpecFair).             *)
(***************************************************************************)
FairTeamIds == {"T1", "T2", "T3"}

\* the fair-play points the rules give a card
RulePoints(et) ==
    CASE et = "red" -> 3
      [] et = "yellow" -> 1
      [] et = "second_yellow" -> 3
      [] et = "yellow_plus_direct_red" -> 4
      [] OTHER -> 0

EventAdded == events_df' = Append(events_df, last_row')

\* C8: one more event of team X raises X's fair-play total by the points of
\* its type (red 3, yellow 1, second_yellow 3, yellow_plus_direct_red 4, any
\* other type 0; the type read trimmed and in lower case, the team trimmed)
\* and leaves the total of every other team as it was.
C8_FairPlayMonotone ==
    [][EventAdded =>
        \A t \in FairTeamIds :
            get0(fairplay', t) =
                get0(fairplay, t)
                + (IF t = strip(last_row'.team_id)
                   THEN RulePoints(lower(strip(last_row'.event_type))) ELSE 0)]_vars

\* a red card for T1 when T1 has 3 points and T2 has 4: T1 goes to 6, T2 stays at 4
C8_Witness ==
    /\ Len(events_df) = 3
    /\ last_row = EventRow("T1", "P1", "red")
    /\ events_df[1] = EventRow("T2 ", "P2", "yellow_plus_direct_red")
    /\ events_df[2] = EventRow("T1", "P1", "second_yellow")
    /\ get0(fairplay, "T1") = 6
    /\ get0(fairplay, "T2") = 4

\* the events of a player with an event type, counted on the sheet
CardsOf(p, t) ==
    Cardinality({ i \in 1..Len(events_df) :
                    events_df[i].player_id = p /\ events_df[i].event_type = t })

FineRowsOf(p) == { i \in 1..Len(card_pvt) : card_pvt[i].player_id = p }

\* C9: a player with y yellow, s second_yellow, r red and c
\* yellow_plus_direct_red events has one row in the fine table and its fine is
\* 200000*y + 300000*s + 500000*r + 700000*c; events of other types add
\* nothing, and a player without any card has no row.
C9_FineFormula ==
    \A p \in Range(SortedPlayers) :
        LET y == CardsOf(p, "yellow")
            s == CardsOf(p, "second_yellow")
            r == CardsOf(p, "red")
            c == CardsOf(p, "yellow_plus_direct_red")
        IN  IF y + s + r + c = 0 THEN FineRowsOf(p) = {}
            ELSE /\ Cardinality(FineRowsOf(p)) = 1
                 /\ \A i \in FineRowsOf(p) :
                        card_pvt[i].TienPhat
                            = 200000 * y + 300000 * s + 500000 * r + 700000 * c

\* P1 with 2 yellow and 1 second_yellow owes 700000
C9_Witness ==
    /\ CardsOf("P1", "yellow") = 2
    /\ CardsOf("P1", "second_yellow") = 1
    /\ \E i \in FineRowsOf("P1") : card_pvt[i].TienPhat = 700000

\* P2 with a yellow_plus_direct_red and a goal owes 700000, the goal adds nothing
C9_WitnessOtherTypes ==
    /\ CardsOf("P2", "yellow_plus_direct_red") = 1
    /\ CardsOf("P2", "goal") = 1
    /\ CardsOf("P2", "Yellow") = 1
    /\ \E i \in FineRowsOf("P2") : card_pvt[i].TienPhat = 700000

RECURSIVE SumOverTeams(_)
\* the per-team fine totals of a set of teams, added up
SumOverTeams(ts) ==
    IF ts = {} THEN 0
    ELSE LET t == CHOOSE x \in ts : TRUE
         IN  total_fine(card_pvt, t) + SumOverTeams(ts \ {t})

\* C29: the fine total shown for the whole tournament is the sum of the fine
\* totals shown for the teams the filter offers.
C29_FineTotalsAddUp ==
    card_pvt # <<>> =>
        total_fine(card_pvt, AllGroups)
            = SumOverTeams(teams_list(pmini(players_df, teams_df)))

(***************************************************************************)
(* The fixtures tab, knockout view with a knockout sheet (tab2, slot path) *)
(***************************************************************************)
\* standings_group(grp) of the standings tab: teams and matches of one group
standings_group(tdf, mdf, cols, edf, g) ==
    compute_standings(SelectSeq(tdf, LAMBDA r : upper(r.group) = g),
                      SelectSeq(mdf, LAMBDA r : upper(r.group) = g), cols, edf)

\* norm_round: the canonical label of a round text, else the text in title case
round_maps ==
    [k \in {"1/8", "Tứ kết", "Bán kết", "Chung kết", "Tranh hạng 3"} |->
        CASE k = "1/8" -> {"1/8", "vong 1/8", "r16", "round of 16", "16"}
          [] k = "Tứ kết" -> {"tứ kết", "tu ket", "qf", "quarterfinal", "8"}
          [] k = "Bán kết" -> {"bán kết", "ban ket", "sf", "semifinal", "4"}
          [] k = "Chung kết" -> {"chung kết", "chung ket", "final", "f"}
          [] k = "Tranh hạng 3" ->
                {"tranh hạng 3", "tranh hang 3", "3rd", "third", "3p", "3rd place"}]

norm_round(val) ==
    LET v == lower(strip(val))
    IN  IF \E k \in DOMAIN round_maps : v \in round_maps[k]
        THEN CHOOSE k \in DOMAIN round_maps : v \in round_maps[k]
        ELSE title(strip(val))

round_order == <<"1/8", "Tứ kết", "Bán kết", "Chung kết", "Tranh hạng 3">>

\* Python's order of the other round labels that occur
SortedLabels == <<"Playoff">>

\* the columns of the bracket: the canonical rounds present, in order; when
\* there is none, the labels present in sorted order
rounds_present(ko) ==
    LET labels == { norm_round(ko[i].round) : i \in 1..Len(ko) }
        canon == SelectSeq(round_order, LAMBDA r : r \in labels)
    IN  IF canon # <<>> THEN canon
        ELSE SelectSeq(SortedLabels, LAMBDA r : r \in labels)

\* the columns of the table compute_standings returns, lower-cased (the
\* letter d-with-stroke of the sheet is written d here)
stand_columns(stand) ==
    IF stand = <<>> THEN {}
    ELSE {"hạng", "team id", "dội", "trận", "thắng", "hòa", "thua",
          "bt", "bb", "hs", "diểm", "fairplay"}

\* rr[col] for the columns the resolver reads
stand_cell(r, col) ==
    CASE col = "hạng" -> r.Hang
      [] col = "team id" -> r.TeamID
      [] col = "dội" -> r.Doi
      [] OTHER -> NaNCell

\* the dict slot_to_team: "A1" -> name.  The try block raises KeyError as soon
\* as it reads the group column of a table that has none (groupby at line 918,
\* dropna at line 920) and the except clause leaves the dict empty.
slot_to_team(stand) ==
    LET cols == stand_columns(stand)
        grp_col == IF "group" \in cols THEN "group" ELSE "bảng"
        team_col == IF "team_name" \in cols THEN "team_name"
                    ELSE IF "dội" \in cols THEN "dội" ELSE "team_id"
        pos_col == IF "pos" \in cols THEN "pos"
                   ELSE IF "rank" \in cols THEN "rank"
                   ELSE IF "thứ hạng" \in cols THEN "thứ hạng" ELSE "pos"
        pos(i) == IF pos_col \in cols THEN stand_cell(stand[i], pos_col)
                  ELSE Cardinality({ j \in 1..i :
                          stand_cell(stand[j], grp_col) = stand_cell(stand[i], grp_col) })
        key(i) == SlotCode(upper(strip(stand_cell(stand[i], grp_col))), pos(i))
    IN  IF grp_col \notin cols THEN <<>>
        ELSE [k \in { key(i) : i \in 1..Len(stand) } |->
                LET last == CHOOSE i \in 1..Len(stand) :
                              key(i) = k /\ \A j \in (i+1)..Len(stand) : key(j) # k
                IN  stand_cell(stand[last], team_col)]

\* int(cell): the number of a digit cell; any other cell raises
int_raises(c) == c \notin Range(DigitCells)
int(c) == (CHOOSE i \in 1..Len(DigitCells) : DigitCells[i] = c) - 1

\* a plausible slip: the home side taken as the winner of every decided match
decide_home(hg, ag, hname, aname) == [win |-> hname, lose |-> aname]

\* lines 937-940: winner and loser of a decided match
decide(hg, ag, hname, aname) ==
    IF hg > ag THEN [win |-> hname, lose |-> aname]
    ELSE [win |-> aname, lose |-> hname]

\* d[k] = v
dict_set(d, k, v) == [x \in DOMAIN d \cup {k} |-> IF x = k THEN v ELSE d[x]]

RECURSIVE by_match_loop_finished(_, _, _)
\* a plausible slip: only matches with a finished status decide a slot
by_match_loop_finished(mm, names, d) ==
    IF mm = <<>> THEN d
    ELSE LET r == Head(mm)
             mid == strip(r.match_id)
             skip == \/ int_raises(r.home_goals) \/ int_raises(r.away_goals)
                     \/ mid = ""
                     \/ int(r.home_goals) = int(r.away_goals)
                     \/ lower(strip(r.status)) \notin FINISHED
             res == decide(int(r.home_goals), int(r.away_goals),
                           name_of(names, r.home_team_id), name_of(names, r.away_team_id))
         IN  by_match_loop_finished(Tail(mm), names,
                 IF skip THEN d
                 ELSE [win |-> dict_set(d.win, mid, res.win),
                       lose |-> dict_set(d.lose, mid, res.lose)])

RECURSIVE by_match_loop(_, _, _)
\* the loop over mm.iterrows() that fills win_by_match and lose_by_match
by_match_loop(mm, names, d) ==
    IF mm = <<>> THEN d
    ELSE LET r == Head(mm)
             mid == strip(r.match_id)
             skip == \/ int_raises(r.home_goals) \/ int_raises(r.away_goals)
                     \/ mid = ""
                     \/ int(r.home_goals) = int(r.away_goals)
             res == decide(int(r.home_goals), int(r.away_goals),
                           name_of(names, r.home_team_id), name_of(names, r.away_team_id))
         IN  by_match_loop(Tail(mm), names,
                 IF skip THEN d
                 ELSE [win |-> dict_set(d.win, mid, res.win),
                       lose |-> dict_set(d.lose, mid, res.lose)])

by_match(mm, names) == by_match_loop(mm, names, [win |-> <<>>, lose |-> <<>>])

\* dict.get(key, default)
dict_get(d, k, default) == IF k \in DOMAIN d THEN d[k] ELSE default

resolve_slot(raw, slots, won) ==
    LET s == strip(raw)
        S == upper(s)
    IN  IF s = "" THEN ""
        ELSE IF is_position_code(S) THEN dict_get(slots, S, s)
        ELSE IF startswith_word(S, "WINNER")
             THEN dict_get(won.win, split(s)[Len(split(s))], s)
        ELSE IF startswith_word(S, "LOSER")
             THEN dict_get(won.lose, split(s)[Len(split(s))], s)
        ELSE s

\* score_html of a slot card: the goals of the first matches row with the
\* slot's match_id, "vs" when there is none or a goal cell is not a number
slot_score(rr, mdf) ==
    LET mid == strip(rr.match_id)
        got == SelectSeq(mdf, LAMBDA m : m.match_id = mid)
    IN  IF mid = "" \/ got = <<>> THEN "vs"
        ELSE IF int_raises(got[1].home_goals) \/ int_raises(got[1].away_goals) THEN "vs"
        ELSE << int(got[1].home_goals), int(got[1].away_goals) >>

\* Python's order of the ko_id cells that occur
SortedKoIds == <<"K1", "K2", "K3">>

\* the slot rows of one round, as sort_values(by=["ko_id","match_id"]) orders them
round_rows(ko, rn) ==
    LET subr == SelectSeq(ko, LAMBDA r : norm_round(r.round) = rn)
        at(k) == SelectSeq(subr, LAMBDA r : r.ko_id = k)
    IN  at(SortedKoIds[1]) \o at(SortedKoIds[2]) \o at(SortedKoIds[3])

\* the knockout view of the fixtures tab when the knockout sheet has rows:
\* one column per round present, one card per slot row of the round
knockout_view(ko, tdf, mdf, cols, edf) ==
    IF mdf = <<>> THEN <<>>
    ELSE LET slots == slot_to_team(compute_standings(tdf, mdf, cols, edf))
             won == by_match(mdf, name_map(tdf))
             rounds == rounds_present(ko)
             card(rr) == [ko_id |-> rr.ko_id,
                          home |-> resolve_slot(rr.slot_home_from, slots, won),
                          away |-> resolve_slot(rr.slot_away_from, slots, won),
                          score |-> slot_score(rr, mdf),
                          mid |-> strip(rr.match_id)]
         IN  [i \in 1..Len(rounds) |->
                [round |-> rounds[i],
                 cards |-> LET subr == round_rows(ko, rounds[i])
                           IN  [j \in 1..Len(subr) |-> card(subr[j])]]]

(***************************************************************************)
(* Specification SpecKnockout: a knockout sheet with slot references is    *)
(* given; results are entered in the matches sheet and the bracket is      *)
(* rendered again.                                                         *)
(***************************************************************************)
MaxKoMatches == 2

TeamRowIn(id, name, g) == [team_id |-> id, team_name |-> name, group |-> g]

\* T1 and T2 play in group A, T3 in group B; T4 is missing from the teams sheet
KoTeams == << TeamRowIn("T1", "Alpha", "A"), TeamRowIn("T2", "Bravo", "a"),
              TeamRowIn("T3", "Charlie", "B") >>

KoRow(id, round, mid, home, away) ==
    [ko_id |-> id, round |-> round, match_id |-> mid,
     slot_home_from |-> home, slot_away_from |-> away, notes |-> ""]

\* knockout sheets: canonical rounds; other spellings of rounds and slots;
\* a canonical and an unknown round together; an unknown round only
KoTables ==
    { << KoRow("K2", "Chung kết", "M3", "WINNER M1", "WINNER M2"),
         KoRow("K1", "Bán kết", "M1", "A1", "B1"),
         KoRow("K3", "Tranh hạng 3", "", "LOSER M1", "LOSER M2") >>,
      << KoRow("K1", "sf", "", "a1", " WINNER M3 "),
         KoRow("K2", "final", "", "winner M1", "LOSER M3") >>,
      << KoRow("K1", "playoff", "", "B1", "WINNER M1"),
         KoRow("K2", "Chung kết", "M2", "TBD", "WINNER M9") >>,
      << KoRow("K1", "playoff", "M2", "A2", "") >> }

KoHeader ==
    {"match_id", "group", "home_team_id", "away_team_id", "home_goals", "away_goals", "status"}

MatchIds == {"M1", "M2", "M3"}

\* home team, away team and group cell of a new match row
KoPairs == { <<"T1", "T2", "A">>, <<"T2", "T1", "A">>, <<"T3", "T4", "B">>, <<"T1", "T3", "">> }

\* score and status cells of a new match row
KoScores ==
    { <<"3", "1", "finished">>, <<"1", "3", "finished">>, <<"1", "1", "finished">>,
      <<"", "", "scheduled">>, <<"x", "2", "finished">>, <<"2", "0", "live">> }

KoMatchRow(id, pair, c) ==
    [match_id |-> id, group |-> pair[3], home_team_id |-> pair[1], away_team_id |-> pair[2],
     home_goals |-> c[1], away_goals |-> c[2], status |-> c[3]]

NoKoMatch == KoMatchRow("", <<"", "", "">>, <<"", "", "">>)

InitKnockout ==
    /\ teams_df = KoTeams
    /\ knockout_df \in KoTables
    /\ matches_df = <<>>
    /\ match_cols = KoHeader
    /\ events_df = <<>>
    /\ last_row = NoKoMatch
    /\ grp = AllGroups
    /\ bracket = knockout_view(knockout_df, teams_df, matches_df, match_cols, events_df)
    /\ summary = <<>>
    /\ Tab1Idle
    /\ Tab3Idle
    /\ RestIdle

\* a row with a new match id is appended to the matches sheet and the
\* knockout view is rendered again
AddKoMatch ==
    /\ Len(matches_df) < MaxKoMatches
    /\ \E id \in MatchIds, pair \in KoPairs, c \in KoScores :
          /\ \A i \in 1..Len(matches_df) : matches_df[i].match_id # id
          /\ matches_df' = Append(matches_df, KoMatchRow(id, pair, c))
          /\ last_row' = KoMatchRow(id, pair, c)
    /\ bracket' = knockout_view(knockout_df, teams_df, matches_df', match_cols, events_df)
    /\ UNCHANGED <<teams_df, match_cols, events_df, knockout_df, grp, summary,
                   standings, tab3_vars, rest_vars>>

NextKnockout == AddKoMatch

SpecKnockout == InitKnockout /\ [][NextKnockout]_vars

(***************************************************************************)
(* Properties of the bracket (specification SpecKnockout).                 *)
(***************************************************************************)
\* the cards on screen, and the slot row a card was drawn from
Cards == UNION { Range(bracket[i].cards) : i \in 1..Len(bracket) }
SlotRowOf(card) == CHOOSE i \in 1..Len(knockout_df) : knockout_df[i].ko_id = card.ko_id

\* the two sides of every card: the slot reference and the text shown for it
ShownSlots ==
    { <<knockout_df[SlotRowOf(c)].slot_home_from, c.home>> : c \in Cards }
    \cup { <<knockout_df[SlotRowOf(c)].slot_away_from, c.away>> : c \in Cards }

\* the name the standings tab shows at rank n of group g, when there is one
RankedAt(g, n) ==
    LET tbl == standings_group(teams_df, matches_df, match_cols, events_df, g)
    IN  { tbl[i].Doi : i \in { j \in 1..Len(tbl) : tbl[j].Hang = n } }

\* C6: a slot reference that is a group-position code XN is shown as the name
\* of the team ranked N-th in group X of the current standings.
C6_PositionSlotShowsRankedTeam ==
    \A g \in {"A", "B"}, n \in 1..3 :
        \A sl \in ShownSlots :
            (sl[1] = SlotCode(g, n) /\ RankedAt(g, n) # {}) => sl[2] \in RankedAt(g, n)

\* the display name of a team id: its name in the teams sheet, else the id
DisplayName(id) ==
    IF \E i \in 1..Len(teams_df) : teams_df[i].team_id = id
    THEN teams_df[CHOOSE i \in 1..Len(teams_df) : teams_df[i].team_id = id].team_name
    ELSE id

WinnerRef(m) ==
    CASE m = "M1" -> "WINNER M1" [] m = "M2" -> "WINNER M2"
      [] m = "M3" -> "WINNER M3" [] m = "M9" -> "WINNER M9"
LoserRef(m) ==
    CASE m = "M1" -> "LOSER M1" [] m = "M2" -> "LOSER M2"
      [] m = "M3" -> "LOSER M3" [] m = "M9" -> "LOSER M9"

MatchesWithId(m) == { i \in 1..Len(matches_df) : matches_df[i].match_id = m }
GoalsOf(i) == << CellNumber[matches_df[i].home_goals], CellNumber[matches_df[i].away_goals] >>
Decided(i) ==
    /\ IsNumberCell(matches_df[i].home_goals)
    /\ IsNumberCell(matches_df[i].away_goals)
    /\ GoalsOf(i)[1] # GoalsOf(i)[2]
HigherSide(i) ==
    IF GoalsOf(i)[1] > GoalsOf(i)[2] THEN matches_df[i].home_team_id
    ELSE matches_df[i].away_team_id
LowerSide(i) ==
    IF GoalsOf(i)[1] > GoalsOf(i)[2] THEN matches_df[i].away_team_id
    ELSE matches_df[i].home_team_id

\* C7: "WINNER m" is shown as the display name of the higher-scoring side of
\* match m and "LOSER m" as that of the lower-scoring side when m has two
\* unequal numeric goals; when m is drawn, lacks a numeric goal or is no match
\* id of the sheet, both references are shown as their own text.
C7_WinnerLoserResolution ==
    \A m \in MatchIds \cup {"M9"} :
        \A sl \in ShownSlots :
            /\ sl[1] = WinnerRef(m) =>
                 IF \E i \in MatchesWithId(m) : Decided(i)
                 THEN \A i \in MatchesWithId(m) : sl[2] = DisplayName(HigherSide(i))
                 ELSE sl[2] = WinnerRef(m)
            /\ sl[1] = LoserRef(m) =>
                 IF \E i \in MatchesWithId(m) : Decided(i)
                 THEN \A i \in MatchesWithId(m) : sl[2] = DisplayName(LowerSide(i))
                 ELSE sl[2] = LoserRef(m)

\* M1 won 1-3 by the away side T4 (no row in the teams sheet), M2 drawn: the
\* final shows "T4" against "WINNER M2", the third-place card "Charlie"
\* against "LOSER M2"
C7_Witness ==
    /\ Len(matches_df) = 2
    /\ matches_df[1] = KoMatchRow("M1", <<"T3", "T4", "B">>, <<"1", "3", "finished">>)
    /\ matches_df[2] = KoMatchRow("M2", <<"T1", "T2", "A">>, <<"1", "1", "finished">>)
    /\ <<"WINNER M1", "T4">> \in ShownSlots
    /\ <<"WINNER M2", "WINNER M2">> \in ShownSlots
    /\ <<"LOSER M1", "Charlie">> \in ShownSlots
    /\ <<"LOSER M2", "LOSER M2">> \in ShownSlots

\* M1 has a goal cell that is no number and M2 is no match id of the sheet:
\* the final shows "WINNER M1" against "WINNER M2"
C7_WitnessUnresolved ==
    /\ Len(matches_df) = 2
    /\ \E i \in MatchesWithId("M1") : matches_df[i].home_goals = "x"
    /\ MatchesWithId("M2") = {}
    /\ <<"WINNER M1", "WINNER M1">> \in ShownSlots
    /\ <<"WINNER M2", "WINNER M2">> \in ShownSlots
    /\ <<"LOSER M1", "LOSER M1">> \in ShownSlots

\* the rows of the matches sheet compute_standings does not count as played
NotCounted == (1..Len(matches_df)) \ played_mask(matches_df, match_cols)

\* C28: a match with two unequal numeric goals decides the "WINNER" and
\* "LOSER" references to it whatever its status, also when compute_standings
\* does not count the match as played.
C28_BracketIgnoresStatus ==
    \A i \in NotCounted :
        Decided(i) =>
            \A sl \in ShownSlots :
                /\ sl[1] = WinnerRef(matches_df[i].match_id)
                     => sl[2] = DisplayName(HigherSide(i))
                /\ sl[1] = LoserRef(matches_df[i].match_id)
                     => sl[2] = DisplayName(LowerSide(i))

\* M1 stands at 2-0 with status "live": no match counts as played, and the
\* final shows the home side of M1 as its winner
C28_Witness ==
    /\ matches_df # <<>>
    /\ matches_df[1] = KoMatchRow("M1", <<"T1", "T2", "A">>, <<"2", "0", "live">>)
    /\ 1 \in NotCounted
    /\ <<"WINNER M1", "Alpha">> \in ShownSlots
    /\ <<"LOSER M1", "Bravo">> \in ShownSlots

\* the normalized round labels of the knockout sheet, and the columns on screen
RoundLabels == { norm_round(knockout_df[i].round) : i \in 1..Len(knockout_df) }
ColumnLabels == { bracket[i].round : i \in 1..Len(bracket) }

\* the places (column, position) where the slot row with a ko_id is drawn
PlacesOf(k) ==
    { <<i, j>> \in (1..Len(bracket)) \X (1..Len(knockout_df)) :
        j <= Len(bracket[i].cards) /\ bracket[i].cards[j].ko_id = k }

\* the position of a label in the canonical order of rounds
CanonPos(r) == CHOOSE n \in 1..Len(round_order) : round_order[n] = r

\* C17: whenever the bracket is drawn it has exactly one column for each
\* distinct normalized round label of the knockout sheet, the canonical rounds
\* in canonical order, and every slot row is drawn in exactly one column.
C17_OneColumnPerRoundLabel ==
    matches_df # <<>> =>
        /\ ColumnLabels = RoundLabels
        /\ Len(bracket) = Cardinality(RoundLabels)
        /\ \A i, j \in 1..Len(bracket) :
              (i < j /\ bracket[i].round \in Range(round_order)
                     /\ bracket[j].round \in Range(round_order))
                 => CanonPos(bracket[i].round) < CanonPos(bracket[j].round)
        /\ \A n \in 1..Len(knockout_df) :
              Cardinality(PlacesOf(knockout_df[n].ko_id)) = 1

(***************************************************************************)
(* The fixtures tab, grouped-by-round view: the summary of every round     *)
(* (tab2, "Tách theo vòng").                                               *)
(***************************************************************************)
\* the filter "Chọn bảng" on the matches
show_of(mdf, g) ==
    IF g = AllGroups THEN mdf ELSE SelectSeq(mdf, LAMBDA r : upper(r.group) = g)

RECURSIVE sum_col(_)
\* Series.sum() of a numeric column, given as the sequence of its values
sum_col(col) ==
    IF col = <<>> THEN 0 ELSE Head(col) + sum_col(Tail(col))

\* a plausible slip: the average taken with // instead of /
avg_floor(goals_tot, n_played) ==
    IF n_played # 0 THEN [num |-> goals_tot \div n_played, den |-> 1]
    ELSE [num |-> 0, den |-> 1]

\* (goals_tot / n_played) if n_played else 0.0, as the fraction num/den
avg_of(goals_tot, n_played) ==
    IF n_played # 0 THEN [num |-> goals_tot, den |-> n_played]
    ELSE [num |-> 0, den |-> 1]

\* f"{avg_goals:.2f}", in hundredths: the nearest hundredth, a tie to the even one
fmt_2f(avg) ==
    LET q == (100 * avg.num) \div avg.den
        rem2 == 2 * ((100 * avg.num) % avg.den)
    IN  IF rem2 > avg.den \/ (rem2 = avg.den /\ q % 2 = 1) THEN q + 1 ELSE q

\* value_counts() of the lower-cased event types of the round's matches
round_cards(sub, edf, t) ==
    LET mids == { sub[i].match_id : i \in 1..Len(sub) }
    IN  Cardinality({ i \in 1..Len(edf) :
                        edf[i].match_id \in mids /\ lower(edf[i].event_type) = t })

\* the summary table of one round, sub being the shown matches of the round
round_summary(sub, edf) ==
    LET hg == [i \in 1..Len(sub) |-> to_numeric(sub[i].home_goals)]
        ag == [i \in 1..Len(sub) |-> to_numeric(sub[i].away_goals)]
        keep == { i \in 1..Len(sub) : notna(hg[i]) /\ notna(ag[i]) }
        played == SelectRows(sub, keep)
        phg == [i \in 1..Len(played) |-> to_numeric(played[i].home_goals)]
        pag == [i \in 1..Len(played) |-> to_numeric(played[i].away_goals)]
        n_played == Len(played)
        gf_home == IF n_played # 0 THEN sum_col(phg) ELSE 0
        gf_away == IF n_played # 0 THEN sum_col(pag) ELSE 0
        goals_tot == gf_home + gf_away
        avg_goals == avg_of(goals_tot, n_played)
    IN  [n_matches |-> Len(sub),
         n_played |-> n_played,
         goals_tot |-> goals_tot,
         gf_home |-> gf_home,
         gf_away |-> gf_away,
         avg_goals |-> avg_goals,
         avg_text |-> fmt_2f(avg_goals),
         home_wins |-> Cardinality({ i \in 1..n_played : phg[i] > pag[i] }),
         away_wins |-> Cardinality({ i \in 1..n_played : phg[i] < pag[i] }),
         draws |-> Cardinality({ i \in 1..n_played : phg[i] = pag[i] }),
         yellow |-> IF edf = <<>> THEN 0 ELSE round_cards(sub, edf, "yellow"),
         sy |-> IF edf = <<>> THEN 0 ELSE round_cards(sub, edf, "second_yellow"),
         red |-> IF edf = <<>> THEN 0 ELSE round_cards(sub, edf, "red"),
         ypr |-> IF edf = <<>> THEN 0 ELSE round_cards(sub, edf, "yellow_plus_direct_red")]

\* the grouped-by-round view: one summary per round of the shown matches;
\* nothing when the matches sheet is empty or the filter keeps no match
round_view(mdf, edf, g) ==
    LET show == show_of(mdf, g)
        rounds == { show[i].round : i \in 1..Len(show) }
    IN  IF mdf = <<>> \/ show = <<>> THEN <<>>
        ELSE [r \in rounds |-> round_summary(SelectSeq(show, LAMBDA m : m.round = r), edf)]

(***************************************************************************)
(* Specification SpecRound: fixtures and results are entered round by      *)
(* round and the group filter is changed; the grouped-by-round view is     *)
(* rendered after each change.                                             *)
(***************************************************************************)
MaxFixtures == 3

\* the match ids, in the order the rows are entered
FixtureIds == <<"M1", "M2", "M3", "M4", "M5">>

RoundCells == {"1", "2"}
GroupCells == {"A", "b"}

\* home_goals and away_goals cells of a new row
RoundScores == { <<"2", "1">>, <<"0", "0">>, <<"", "">>, <<"1", "2">>, <<"3", "x">> }

FixtureRow(id, rnd, g, c) ==
    [match_id |-> id, round |-> rnd, group |-> g,
     home_team_id |-> "T1", away_team_id |-> "T2",
     home_goals |-> c[1], away_goals |-> c[2], status |-> ""]

NoFixture == FixtureRow("", "", "", <<"", "">>)

MatchEvent(m, t, p, et) == [match_id |-> m, team_id |-> t, player_id |-> p, event_type |-> et]

\* the events sheet: cards of the first two matches
RoundEvents ==
    << MatchEvent("M1", "T1", "P1", "Yellow"), MatchEvent("M1", "T2", "P2", "red"),
       MatchEvent("M2", "T1", "P1", "goal") >>

GroupChoices == {AllGroups, "A", "B"}

InitRound ==
    /\ teams_df = FairTeams
    /\ matches_df = <<>>
    /\ match_cols = KoHeader \cup {"round"}
    /\ events_df = RoundEvents
    /\ knockout_df = <<>>
    /\ grp = AllGroups
    /\ last_row = NoFixture
    /\ bracket = <<>>
    /\ summary = round_view(matches_df, events_df, grp)
    /\ Tab1Idle
    /\ Tab3Idle
    /\ RestIdle

\* a row is appended to the matches sheet and the view is rendered again
AddFixture ==
    /\ Len(matches_df) < MaxFixtures
    /\ \E rnd \in RoundCells, g \in GroupCells, c \in RoundScores :
          LET row == FixtureRow(FixtureIds[Len(matches_df) + 1], rnd, g, c)
          IN  /\ matches_df' = Append(matches_df, row)
              /\ last_row' = row
    /\ summary' = round_view(matches_df', events_df, grp)
    /\ UNCHANGED <<teams_df, match_cols, events_df, knockout_df, grp, bracket,
                   standings, tab3_vars, rest_vars>>

\* another group is picked in "Chọn bảng" and the view is rendered again
PickGroup ==
    /\ \E g \in GroupChoices \ {grp} : grp' = g
    /\ summary' = round_view(matches_df, events_df, grp')
    /\ UNCHANGED <<teams_df, matches_df, match_cols, events_df, knockout_df, bracket,
                   standings, tab3_vars, last_row, rest_vars>>

NextRound == AddFixture \/ PickGroup

SpecRound == InitRound /\ [][NextRound]_vars

(***************************************************************************)
(* Properties of the round summary (specification SpecRound).              *)
(***************************************************************************)
\* the matches of round r that the group filter keeps, and those with both goals
RoundMatches(r) ==
    { i \in 1..Len(matches_df) :
        /\ matches_df[i].round = r
        /\ grp = AllGroups \/ matches_df[i].group \in {grp, IF grp = "B" THEN "b" ELSE "a"} }
Scored(r) ==
    { i \in RoundMatches(r) :
        IsNumberCell(matches_df[i].home_goals) /\ IsNumberCell(matches_df[i].away_goals) }

RECURSIVE GoalsIn(_)
GoalsIn(S) ==
    IF S = {} THEN 0
    ELSE LET i == CHOOSE x \in S : TRUE
         IN  GoalsOf(i)[1] + GoalsOf(i)[2] + GoalsIn(S \ {i})

\* C10: every round with a shown match has a summary, in which n_matches is
\* the number of shown matches of the round, n_played the number of those with
\* two numeric goals, goals_tot the goals of those, home_wins + away_wins +
\* draws = n_played, avg_goals * n_played = goals_tot, and avg_goals = 0 when
\* n_played = 0.
C10_RoundSummary ==
    /\ DOMAIN summary = { r \in RoundCells : RoundMatches(r) # {} }
    /\ \A r \in DOMAIN summary :
          LET t == summary[r]
          IN  /\ t.n_matches = Cardinality(RoundMatches(r))
              /\ t.n_played = Cardinality(Scored(r))
              /\ t.goals_tot = GoalsIn(Scored(r))
              /\ t.home_wins + t.away_wins + t.draws = t.n_played
              /\ t.avg_goals.num * t.n_played = t.goals_tot * t.avg_goals.den
              /\ t.n_played = 0 => t.avg_goals.num = 0

\* round 1 with 2-1, 0-0 and an unscored match: 3 matches, 2 played, 3 goals,
\* 1.5 goals a match
C10_Witness ==
    /\ grp = AllGroups
    /\ Len(matches_df) = 3
    /\ \A i \in 1..3 : matches_df[i].round = "1"
    /\ << matches_df[1].home_goals, matches_df[1].away_goals >> = <<"2", "1">>
    /\ << matches_df[2].home_goals, matches_df[2].away_goals >> = <<"0", "0">>
    /\ << matches_df[3].home_goals, matches_df[3].away_goals >> = <<"", "">>
    /\ "1" \in DOMAIN summary
    /\ summary["1"].n_matches = 3
    /\ summary["1"].n_played = 2
    /\ summary["1"].goals_tot = 3
    /\ 2 * summary["1"].avg_goals.num = 3 * summary["1"].avg_goals.den
    /\ summary["1"].avg_text = 150

\* a round of which no shown match has a score: average 0
C10_WitnessNonePlayed ==
    /\ grp = "B"
    /\ "2" \in DOMAIN summary
    /\ summary["2"].n_matches = 2
    /\ summary["2"].n_played = 0
    /\ summary["2"].avg_goals.num = 0
    /\ \E i \in 1..Len(matches_df) : matches_df[i].round = "2" /\ matches_df[i].group = "A"

(***************************************************************************)
(* The team logos: _normalize_drive_url and the dict TEAM_LOGOS.  A link   *)
(* is the sequence of its pieces, so that "in" and split() work on it as   *)
(* they do on the text.                                                    *)
(***************************************************************************)
\* pat in u: the first place where pat occurs in u, 0 when it does not occur
find(u, pat) ==
    LET at == { i \in 1..(Len(u) - Len(pat) + 1) : SubSeq(u, i, i + Len(pat) - 1) = pat }
    IN  IF at = {} THEN 0 ELSE CHOOSE i \in at : \A j \in at : i <= j

contains(u, pat) == find(u, pat) # 0

\* u.split(sep)[0]
split_head(u, sep) ==
    IF contains(u, sep) THEN SubSeq(u, 1, find(u, sep) - 1) ELSE u

\* u.split(sep)[1], for a text that holds sep
split_second(u, sep) ==
    split_head(SubSeq(u, find(u, sep) + Len(sep), Len(u)), sep)

RECURSIVE lstrip_pieces(_)
lstrip_pieces(u) ==
    IF u # <<>> /\ Head(u) = " " THEN lstrip_pieces(Tail(u)) ELSE u

\* str.strip() of a link
strip_pieces(u) == Reverse(lstrip_pieces(Reverse(lstrip_pieces(u))))

\* a plausible slip: the size hint appended to a uc?id= link, "=w128-h128"
thumbnail_url_uc_sized(fid) ==
    <<"https:", "/", "/", "drive.google.com", "/", "uc", "?", "id=">>
    \o fid \o <<"=w128-h128">>

\* f"https://drive.google.com/thumbnail?id={fid}&sz=w128-h128"
thumbnail_url(fid) ==
    <<"https:", "/", "/", "drive.google.com", "/", "thumbnail", "?", "id=">>
    \o fid \o <<"&", "sz=w128-h128">>

\* a plausible slip: the uc?id= branch without its export=view test
normalize_drive_url_uc_always(cell) ==
    LET u == strip_pieces(cell)
    IN  IF u = <<>> THEN <<>>
        ELSE IF contains(u, <<"drive.google.com">>)
        THEN IF contains(u, <<"/", "file", "/", "d", "/">>)
             THEN thumbnail_url(split_head(split_second(u, <<"/", "file", "/", "d", "/">>), <<"/">>))
             ELSE IF contains(u, <<"open", "?", "id=">>)
             THEN thumbnail_url(split_head(split_second(u, <<"open", "?", "id=">>), <<"&">>))
             ELSE IF contains(u, <<"uc", "?", "id=">>)
             THEN thumbnail_url(split_head(split_second(u, <<"uc", "?", "id=">>), <<"&">>))
             ELSE u
        ELSE u

\* _normalize_drive_url (the same function at lines 420 and 587)
normalize_drive_url(cell) ==
    LET u == strip_pieces(cell)
    IN  IF u = <<>> THEN <<>>
        ELSE IF contains(u, <<"drive.google.com">>)
        THEN IF contains(u, <<"/", "file", "/", "d", "/">>)
             THEN thumbnail_url(split_head(split_second(u, <<"/", "file", "/", "d", "/">>), <<"/">>))
             ELSE IF contains(u, <<"open", "?", "id=">>)
             THEN thumbnail_url(split_head(split_second(u, <<"open", "?", "id=">>), <<"&">>))
             ELSE IF contains(u, <<"uc", "?", "id=">>) /\ ~contains(u, <<"export=", "view">>)
             THEN thumbnail_url(split_head(split_second(u, <<"uc", "?", "id=">>), <<"&">>))
             ELSE u
        ELSE u

\* TEAM_LOGOS = dict(zip(team ids stripped, logo links stripped and normalized));
\* built when the teams and matches sheets have rows
team_logos(tdf, mdf) ==
    IF tdf = <<>> \/ mdf = <<>> THEN <<>>
    ELSE [k \in { strip(tdf[i].team_id) : i \in 1..Len(tdf) } |->
            LET last == CHOOSE i \in 1..Len(tdf) :
                          /\ strip(tdf[i].team_id) = k
                          /\ \A j \in (i+1)..Len(tdf) : strip(tdf[j].team_id) # k
            IN  normalize_drive_url(tdf[last].logo_url)]

(***************************************************************************)
(* Specification SpecLogos: teams are entered with a logo link and the     *)
(* logos are normalized at the next render.                                *)
(***************************************************************************)
MaxLogoTeams == 1

DriveHost == <<"https:", "/", "/", "drive.google.com", "/">>
OtherHost == <<"https:", "/", "/", "example.com", "/">>

FileIds == { <<"a">>, <<"b">>, <<"a", "b">> }

PathKinds ==
    { "file_view", "file_end", "open", "open_more", "uc", "uc_download",
      "uc_view", "view_uc", "thumbnail", "folder", "picture" }

\* the part of a link after the host
PathOf(kind, fid) ==
    CASE kind = "file_view" -> <<"file", "/", "d", "/">> \o fid \o <<"/", "view">>
      [] kind = "file_end" -> <<"file", "/", "d", "/">> \o fid \o <<"/">>
      [] kind = "open" -> <<"open", "?", "id=">> \o fid
      [] kind = "open_more" -> <<"open", "?", "id=">> \o fid \o <<"&", "usp=sharing">>
      [] kind = "uc" -> <<"uc", "?", "id=">> \o fid
      [] kind = "uc_download" -> <<"uc", "?", "id=">> \o fid \o <<"&", "export=", "download">>
      [] kind = "uc_view" -> <<"uc", "?", "id=">> \o fid \o <<"&", "export=", "view">>
      [] kind = "view_uc" -> <<"uc", "?", "export=", "view", "&", "id=">> \o fid
      [] kind = "thumbnail" -> <<"thumbnail", "?", "id=">> \o fid \o <<"&", "sz=w128-h128">>
      [] kind = "folder" -> <<"drive", "/", "folders", "/">> \o fid
      [] kind = "picture" -> fid \o <<".png">>

Padded(pad, u) == IF pad THEN <<" ">> \o u \o <<" ", " ">> ELSE u

\* texts in the place of <ID> that themselves hold a link marker
NestedIds == { <<"uc", "?", "id=", "a">>, <<"open", "?", "id=", "b">> }

\* links whose <ID> part holds a second marker, as in .../open?id=uc?id=a
NestedCells ==
    { DriveHost \o PathOf(kind, nid) : kind \in {"file_view", "open"}, nid \in NestedIds }

\* the logo_url cells a team row can carry
LogoCells ==
    { Padded(pad, host \o PathOf(kind, fid)) :
        pad \in BOOLEAN, host \in {DriveHost, OtherHost}, kind \in PathKinds, fid \in FileIds }
    \cup { <<>>, <<" ">> }
    \cup NestedCells

LogoTeamRow(id, name, u) == [team_id |-> id, team_name |-> name, group |-> "A", logo_url |-> u]

\* the matches sheet: one fixture, so that the tabs build the logos
LogoFixture == << MatchRow("T1", "T2", <<"", "", "scheduled">>) >>

InitLogos ==
    /\ teams_df = <<>>
    /\ matches_df = LogoFixture
    /\ match_cols = FullHeader
    /\ events_df = <<>>
    /\ last_row = NoRow
    /\ TEAM_LOGOS = team_logos(teams_df, matches_df)
    /\ admin_msg = ""
    /\ LoadIdle
    /\ Tab1Idle
    /\ Tab2Idle
    /\ Tab3Idle

\* a team row with a logo link is appended and the page is rendered again
AddTeamLogo ==
    /\ Len(teams_df) < MaxLogoTeams
    /\ \E u \in LogoCells :
          LET row == LogoTeamRow(SortedIds[Len(teams_df) + 1], "Team", u)
          IN  /\ teams_df' = Append(teams_df, row)
              /\ last_row' = row
    /\ TEAM_LOGOS' = team_logos(teams_df', matches_df)
    /\ UNCHANGED <<matches_df, match_cols, events_df, standings, tab2_vars, tab3_vars,
                   admin_msg, load_vars>>

NextLogos == AddTeamLogo

SpecLogos == InitLogos /\ [][NextLogos]_vars

(***************************************************************************)
(* Properties of the logo links (specification SpecLogos).                 *)
(***************************************************************************)
\* the shapes that carry a file id to rewrite, and the shapes to leave alone
RewrittenKinds == {"file_view", "file_end", "open", "open_more", "uc", "uc_download"}
KeptKinds == PathKinds \ RewrittenKinds

\* the logo of the team of row i
LogoOf(i) == TEAM_LOGOS[teams_df[i].team_id]

\* C11: a drive.google.com link /file/d/<ID>/..., open?id=<ID> or uc?id=<ID>
\* without export=view becomes the thumbnail link of the same <ID>; every
\* other link (another host, uc?id= with export=view, a folder or thumbnail
\* link) comes back as it is, without the blanks around it; an empty cell
\* gives the empty string.
C11_ImageLinkNormalization ==
    \A i \in 1..Len(teams_df) :
        LET cell == teams_df[i].logo_url
        IN  /\ \A pad \in BOOLEAN, kind \in PathKinds, fid \in FileIds :
                 /\ (kind \in RewrittenKinds /\ cell = Padded(pad, DriveHost \o PathOf(kind, fid)))
                        => LogoOf(i) = thumbnail_url(fid)
                 /\ (kind \in KeptKinds /\ cell = Padded(pad, DriveHost \o PathOf(kind, fid)))
                        => LogoOf(i) = DriveHost \o PathOf(kind, fid)
                 /\ cell = Padded(pad, OtherHost \o PathOf(kind, fid))
                        => LogoOf(i) = OtherHost \o PathOf(kind, fid)
            /\ cell \in { <<>>, <<" ">> } => LogoOf(i) = <<>>

\* a padded share link .../file/d/ab/view is shown as the thumbnail of ab
C11_Witness ==
    /\ Len(teams_df) = 1
    /\ teams_df[1].logo_url = Padded(TRUE, DriveHost \o PathOf("file_view", <<"a", "b">>))
    /\ TEAM_LOGOS["T1"] = <<"https:", "/", "/", "drive.google.com", "/", "thumbnail", "?",
                            "id=", "a", "b", "&", "sz=w128-h128">>

\* a uc?id= link with export=view stays as it is
C11_WitnessKept ==
    /\ Len(teams_df) = 1
    /\ teams_df[1].logo_url = DriveHost \o PathOf("uc_view", <<"a">>)
    /\ TEAM_LOGOS["T1"] = teams_df[1].logo_url

\* the places where pat starts in u
occurrences(u, pat) ==
    { i \in 1..(Len(u) - Len(pat) + 1) : SubSeq(u, i, i + Len(pat) - 1) = pat }

\* the three texts the normalization looks for
Markers == { <<"/", "file", "/", "d", "/">>, <<"open", "?", "id=">>, <<"uc", "?", "id=">> }

\* how many times a link holds one of them
MarkerCount(u) == Cardinality({ <<m, i>> \in Markers \X (1..Len(u)) : i \in occurrences(u, m) })

\* C30 (as stated): normalizing a normalized link changes nothing, for
\* every link: _normalize_drive_url(_normalize_drive_url(u)) =
\* _normalize_drive_url(u), whatever the logo_url cell u holds.
C30_NormalizationIdempotent ==
    \A i \in 1..Len(teams_df) : normalize_drive_url(LogoOf(i)) = LogoOf(i)

\* C30 (amended): for every link that holds at most one of the markers
\* /file/d/, open?id=, uc?id=, normalizing the normalized link changes
\* nothing; and a link already in the thumbnail form with a plain id is
\* returned as it is.
C30_IdempotentOnSingleMarker ==
    \A i \in 1..Len(teams_df) :
        LET cell == teams_df[i].logo_url
        IN  /\ MarkerCount(cell) <= 1 => normalize_drive_url(LogoOf(i)) = LogoOf(i)
            /\ \A fid \in FileIds :
                  cell = DriveHost \o PathOf("thumbnail", fid) => LogoOf(i) = cell

\* an open?id=ab&usp=sharing link was rewritten to the thumbnail of ab, which
\* a second normalization leaves alone
C30_Witness ==
    /\ Len(teams_df) = 1
    /\ teams_df[1].logo_url = DriveHost \o PathOf("open_more", <<"a", "b">>)
    /\ MarkerCount(teams_df[1].logo_url) = 1
    /\ LogoOf(1) = thumbnail_url(<<"a", "b">>)
    /\ LogoOf(1) # teams_df[1].logo_url
    /\ normalize_drive_url(LogoOf(1)) = LogoOf(1)

(***************************************************************************)
(* The data load: get_gspread_client, load_worksheet_df with its 60 s      *)
(* cache, the five loads at the top of every script run, and the tabs.     *)
(***************************************************************************)
TTL == 60

\* the worksheets, in the order lines 394-398 load them
Worksheets == <<"teams", "players", "matches", "events", "knockout">>

Tabs == {"standings", "fixtures", "players", "gallery"}

\* positions of a script run: 0 = page shown, i = about to load Worksheets[i]
AtTabs == Len(Worksheets) + 1
Crashed == Len(Worksheets) + 2

\* conditions of the spreadsheet service and of the secrets
Conditions == {"ok", "no_key", "no_credential", "not_found", "denied"}

\* pd.DataFrame(ws.get_all_records()) of a worksheet with n rows
SheetTable(ws, n) == [i \in 1..n |-> [sheet |-> ws, row |-> i]]

rows_of(svc, ws) == IF ws = "matches" THEN svc.rows ELSE 1

\* a plausible slip: a worksheet that is missing is created before it is read
fetch_create_missing(svc, has_client, ws) ==
    IF ~has_client /\ svc.condition = "no_credential"
    THEN [ok |-> FALSE, error |-> "no_credential", ops |-> {}, value |-> <<>>,
          has_client |-> FALSE]
    ELSE LET auth == IF has_client THEN {} ELSE {"authenticate"}
         IN  IF svc.condition \in {"no_key", "not_found", "denied"}
             THEN [ok |-> FALSE, error |-> svc.condition, ops |-> auth \cup {"open"},
                   value |-> <<>>, has_client |-> TRUE]
             ELSE [ok |-> TRUE, error |-> "",
                   ops |-> auth \cup {"open", "read"}
                           \cup (IF ws \in svc.absent THEN {"write"} ELSE {}),
                   value |-> IF ws \in svc.absent THEN <<>> ELSE SheetTable(ws, rows_of(svc, ws)),
                   has_client |-> TRUE]

\* the try block of load_worksheet_df against the service: the client (built
\* and authorized once), open_by_key, worksheet, get_all_records
fetch(svc, has_client, ws) ==
    IF ~has_client /\ svc.condition = "no_credential"
    THEN [ok |-> FALSE, error |-> "no_credential", ops |-> {}, value |-> <<>>,
          has_client |-> FALSE]
    ELSE LET auth == IF has_client THEN {} ELSE {"authenticate"}
         IN  IF svc.condition \in {"no_key", "not_found", "denied"}
             THEN [ok |-> FALSE, error |-> svc.condition, ops |-> auth \cup {"open"},
                   value |-> <<>>, has_client |-> TRUE]
             ELSE IF ws \in svc.absent
             THEN [ok |-> FALSE, error |-> "worksheet_absent",
                   ops |-> auth \cup {"open", "read"}, value |-> <<>>, has_client |-> TRUE]
             ELSE [ok |-> TRUE, error |-> "", ops |-> auth \cup {"open", "read"},
                   value |-> SheetTable(ws, rows_of(svc, ws)), has_client |-> TRUE]

\* a plausible slip: only the missing worksheet handled (except WorksheetNotFound)
caught_worksheet_only(error) == error = "worksheet_absent"

\* except Exception: every failure of the try block is handled
caught(error) == TRUE

\* a plausible slip: an entry still served at the moment it turns 60 seconds old
fresh_inclusive(entry, t) == t - entry.at <= TTL

\* ttl=60: an entry is served while less than 60 seconds old
fresh(entry, t) == t - entry.at < TTL

\* a plausible slip: a stored failure is not served, the next call fetches again
load_worksheet_df_retry(svc, store, has_client, t, ws) ==
    IF ws \in DOMAIN store /\ fresh(store[ws], t) /\ store[ws].notice = {}
    THEN [hit |-> TRUE, stale |-> FALSE, raised |-> FALSE, value |-> store[ws].value,
          notice |-> store[ws].notice, at |-> store[ws].at, ops |-> {}, fetches |-> 0,
          has_client |-> has_client, store |-> store]
    ELSE LET got == fetch(svc, has_client, ws)
             handled == got.ok \/ caught(got.error)
             notice == IF got.ok THEN {} ELSE {[ws |-> ws, error |-> got.error]}
             entry == [value |-> got.value, notice |-> notice, at |-> t]
         IN  [hit |-> FALSE, stale |-> ws \in DOMAIN store, raised |-> ~handled,
              value |-> got.value, notice |-> notice, at |-> t, ops |-> got.ops, fetches |-> 1,
              has_client |-> got.has_client,
              store |-> IF handled THEN dict_set(store, ws, entry) ELSE store]

\* one call load_worksheet_df(SHEET_KEY, ws) at time t
load_worksheet_df(svc, store, has_client, t, ws) ==
    IF ws \in DOMAIN store /\ fresh(store[ws], t)
    THEN [hit |-> TRUE, stale |-> FALSE, raised |-> FALSE, value |-> store[ws].value,
          notice |-> store[ws].notice, at |-> store[ws].at, ops |-> {}, fetches |-> 0,
          has_client |-> has_client, store |-> store]
    ELSE LET got == fetch(svc, has_client, ws)
             handled == got.ok \/ caught(got.error)
             notice == IF got.ok THEN {} ELSE {[ws |-> ws, error |-> got.error]}
             entry == [value |-> got.value, notice |-> notice, at |-> t]
         IN  [hit |-> FALSE, stale |-> ws \in DOMAIN store, raised |-> ~handled,
              value |-> got.value, notice |-> notice, at |-> t, ops |-> got.ops, fetches |-> 1,
              has_client |-> got.has_client,
              store |-> IF handled THEN dict_set(store, ws, entry) ELSE store]

(***************************************************************************)
(* Specification SpecLoad: script runs (the first render, re-renders after *)
(* any interaction) load the five worksheets and render the tabs, while    *)
(* time passes and the spreadsheet is edited or shared out of band.        *)
(***************************************************************************)
MaxTicks == 2
MaxSheetRows == 2

TickSteps == {30}
Horizon == MaxTicks * TTL

\* the service at the first render: the spreadsheet unreachable for one of the
\* four reasons, or readable with or without its optional knockout worksheet
ServiceStates ==
    {[condition |-> c, absent |-> {}, rows |-> 1] : c \in Conditions}
    \cup {[condition |-> "ok", absent |-> {"knockout"}, rows |-> 1]}

InitLoad ==
    /\ service \in ServiceStates
    /\ cache = <<>>
    /\ client = FALSE
    /\ now = 0
    /\ pc = 0
    /\ calls = {}
    /\ notices = {}
    /\ rendered = {}
    /\ last_load = <<>>
    /\ teams_df = <<>> /\ matches_df = <<>> /\ events_df = <<>>
    /\ match_cols = {}
    /\ last_row = NoRow
    /\ TEAM_LOGOS = <<>>
    /\ admin_msg = ""
    /\ Tab1Idle
    /\ Tab2Idle
    /\ Tab3Idle

\* a script run starts: the page is drawn anew
StartRun ==
    /\ pc \in {0, Crashed}
    /\ pc' = 1
    /\ notices' = {}
    /\ rendered' = {}
    /\ UNCHANGED <<teams_df, matches_df, match_cols, events_df, players_df, knockout_df,
                   grp, standings, fairplay, card_pvt, bracket, summary, last_row,
                   TEAM_LOGOS, admin_msg, service, cache, client, now, calls, last_load>>

\* the next of the five loads of lines 394-398
LoadNext ==
    /\ pc \in 1..Len(Worksheets)
    /\ LET ws == Worksheets[pc]
           res == load_worksheet_df(service, cache, client, now, ws)
       IN  /\ cache' = res.store
           /\ client' = res.has_client
           /\ calls' = calls \cup res.ops
           /\ notices' = notices \cup res.notice
           /\ last_load' = [ws |-> ws, hit |-> res.hit, stale |-> res.stale,
                            value |-> res.value, at |-> res.at, ops |-> res.ops,
                            fetches |-> res.fetches]
           /\ pc' = IF res.raised THEN Crashed ELSE pc + 1
           /\ teams_df' = IF ws = "teams" /\ ~res.raised THEN res.value ELSE teams_df
           /\ players_df' = IF ws = "players" /\ ~res.raised THEN res.value ELSE players_df
           /\ matches_df' = IF ws = "matches" /\ ~res.raised THEN res.value ELSE matches_df
           /\ events_df' = IF ws = "events" /\ ~res.raised THEN res.value ELSE events_df
           /\ knockout_df' = IF ws = "knockout" /\ ~res.raised THEN res.value ELSE knockout_df
    /\ UNCHANGED <<match_cols, grp, standings, fairplay, card_pvt, bracket, summary,
                   last_row, TEAM_LOGOS, admin_msg, service, now, rendered>>

\* st.tabs and the four "with tab" blocks: nothing before them stops the run
RenderTabs ==
    /\ pc = AtTabs
    /\ rendered' = Tabs
    /\ pc' = 0
    /\ UNCHANGED <<teams_df, matches_df, match_cols, events_df, players_df, knockout_df,
                   grp, standings, fairplay, card_pvt, bracket, summary, last_row,
                   TEAM_LOGOS, admin_msg, service, cache, client, now, calls, notices,
                   last_load>>

\* time passes
Tick ==
    /\ \E d \in TickSteps : now + d <= Horizon /\ now' = now + d
    /\ UNCHANGED <<teams_df, matches_df, match_cols, events_df, players_df, knockout_df,
                   grp, standings, fairplay, card_pvt, bracket, summary, last_row,
                   TEAM_LOGOS, admin_msg, service, cache, client, pc, calls, notices,
                   rendered, last_load>>

\* an organizer adds a row to the matches worksheet
EditSheet ==
    /\ service.rows < MaxSheetRows
    /\ service' = [service EXCEPT !.rows = @ + 1]
    /\ UNCHANGED <<teams_df, matches_df, match_cols, events_df, players_df, knockout_df,
                   grp, standings, fairplay, card_pvt, bracket, summary, last_row,
                   TEAM_LOGOS, admin_msg, cache, client, now, pc, calls, notices,
                   rendered, last_load>>

\* the spreadsheet is found or shared with the service account
Recover ==
    /\ service.condition \in {"not_found", "denied"}
    /\ service' = [service EXCEPT !.condition = "ok"]
    /\ UNCHANGED <<teams_df, matches_df, match_cols, events_df, players_df, knockout_df,
                   grp, standings, fairplay, card_pvt, bracket, summary, last_row,
                   TEAM_LOGOS, admin_msg, cache, client, now, pc, calls, notices,
                   rendered, last_load>>

NextLoad == StartRun \/ LoadNext \/ RenderTabs \/ Tick \/ EditSheet \/ Recover

SpecLoad == InitLoad /\ [][NextLoad]_vars

\* the table the script holds for a worksheet
TableOf(ws) ==
    CASE ws = "teams" -> teams_df
      [] ws = "players" -> players_df
      [] ws = "matches" -> matches_df
      [] ws = "events" -> events_df
      [] ws = "knockout" -> knockout_df

\* a step that performs one of the five loads
LoadStep == pc \in 1..Len(Worksheets) /\ pc' # pc

OpenFailures == {"no_key", "no_credential", "not_found", "denied"}

\* C13: when the spreadsheet cannot be opened (key missing, credential missing,
\* spreadsheet not found, permission denied) the render halts: no tab is
\* rendered in a run that met such a failure.
C13_OpenFailureIsFatal ==
    (\E n \in notices : n.error \in OpenFailures) => rendered = {}

\* the service cannot deliver worksheet ws
FailsFor(svc, ws) == svc.condition # "ok" \/ ws \in svc.absent

\* C14: a load never raises to the script: the run moves on to the next step,
\* and a load that contacted the service and failed leaves an empty table for
\* the worksheet and a notice that names it.
C14_WorksheetFailureNonFatal ==
    [][LoadStep =>
        \A ws \in {Worksheets[pc]} :
            /\ pc' = pc + 1
            /\ (~last_load'.hit /\ FailsFor(service, ws))
                 => /\ TableOf(ws)' = <<>>
                    /\ \E n \in notices' : n.ws = ws]_vars

\* a run reached the tabs after the knockout worksheet turned out to be missing
C14_Witness ==
    /\ rendered = Tabs
    /\ last_load # <<>> /\ last_load.ws = "knockout" /\ ~last_load.hit
    /\ knockout_df = <<>>
    /\ teams_df # <<>>
    /\ [ws |-> "knockout", error |-> "worksheet_absent"] \in notices

\* C15: a load of a worksheet whose entry is less than 60 seconds old returns
\* the entry's table without contacting the service; the first load once 60
\* seconds have passed fetches again; entries of other worksheets are left
\* alone; and the table a load returns was fetched less than 60 seconds ago.
C15_CacheSixtySeconds ==
    [][LoadStep =>
        \A ws \in {Worksheets[pc]} : \A had \in {ws \in DOMAIN cache} :
            /\ (had /\ now - cache[ws].at < 60)
                 => /\ last_load'.hit
                    /\ last_load'.ops = {}
                    /\ calls' = calls
                    /\ TableOf(ws)' = cache[ws].value
            /\ (had /\ now - cache[ws].at >= 60)
                 => /\ ~last_load'.hit
                    /\ service.condition # "no_credential" => "open" \in last_load'.ops
            /\ ~had => ~last_load'.hit
            /\ \A w \in DOMAIN cache \ {ws} : w \in DOMAIN cache' /\ cache'[w] = cache[w]
            /\ now - last_load'.at < 60]_vars

\* the matches table served from a 30-second-old entry although the worksheet
\* has gained a row since
C15_Witness ==
    /\ last_load # <<>> /\ last_load.ws = "matches" /\ last_load.hit
    /\ now - last_load.at = 30
    /\ service.condition = "ok"
    /\ Len(matches_df) < service.rows

\* the matches table fetched again because its entry had turned 60 seconds old
C15_WitnessExpired ==
    /\ last_load # <<>> /\ last_load.ws = "matches" /\ ~last_load.hit /\ last_load.stale
    /\ "read" \in last_load.ops
    /\ Len(matches_df) = service.rows
    /\ "teams" \in DOMAIN cache /\ now - cache["teams"].at = 60

AllowedOps == {"authenticate", "list", "open", "read"}

\* C16: the dashboard issues no operation to the spreadsheet service other than
\* authenticate, list, open and read.
C16_ReadOnly == calls \subseteq AllowedOps

\* a complete run against a readable spreadsheet whose knockout worksheet is
\* missing
C16_Witness ==
    /\ rendered = Tabs
    /\ calls = {"authenticate", "open", "read"}
    /\ service.condition = "ok" /\ "knockout" \in service.absent
    /\ knockout_df = <<>> /\ matches_df # <<>>

(***************************************************************************)
(* Specification SpecPlayed: match rows with every kind of score and       *)
(* status cell are entered, under a header with or without a status        *)
(* column, and the standings tab is rendered again.                        *)
(***************************************************************************)
MaxPlayedRows == 2

PlayedHeaders ==
    { {"home_team_id", "away_team_id", "Home_Goals", "away_goals", "Status "},
      {"home_team_id", "away_team_id", "home_goals", "away_goals"} }

\* the two goal cells of a new row: a win, a draw, one goal missing
ScoreCells == { <<"2", "1">>, <<"1", "1">>, <<"2", "">> }

\* the status cell of a new row
StatusCells == {"Done", "KẾT THÚC", "ket thuc ", " FT ", "scheduled", "live", ""}

PlayedPairs == { <<"T1", "T2">>, <<"T3", "T1">> }

InitPlayed ==
    /\ teams_df \in TeamTables
    /\ match_cols \in PlayedHeaders
    /\ matches_df = <<>>
    /\ events_df = <<>>
    /\ last_row = NoRow
    /\ standings = compute_standings(teams_df, matches_df, match_cols, events_df)
    /\ Tab2Idle
    /\ Tab3Idle
    /\ RestIdle

\* a row is appended to the matches sheet and the standings tab is rendered again
AddPlayedRow ==
    /\ Len(matches_df) < MaxPlayedRows
    /\ \E pair \in PlayedPairs, sc \in ScoreCells, st \in StatusCells :
          /\ matches_df' = Append(matches_df, MatchRow(pair[1], pair[2], <<sc[1], sc[2], st>>))
          /\ last_row' = MatchRow(pair[1], pair[2], <<sc[1], sc[2], st>>)
    /\ standings' = compute_standings(teams_df, matches_df', match_cols, events_df)
    /\ UNCHANGED <<teams_df, match_cols, events_df, tab2_vars, tab3_vars, rest_vars>>

NextPlayed == AddPlayedRow

SpecPlayed == InitPlayed /\ [][NextPlayed]_vars

(***************************************************************************)
(* Properties of the standings (specification SpecPlayed).                 *)
(***************************************************************************)
\* C18: in every non-empty standings table the rank column counts 1, 2, ..., N
\* from the first row to the last.
C18_RankColumn ==
    standings # <<>> =>
        /\ \A i \in 1..Len(standings) : standings[i].Hang = i
        /\ { standings[i].Hang : i \in 1..Len(standings) } = 1..Len(standings)

\* three ranked rows in an order that is not the order of the teams sheet
C18_Witness ==
    /\ Len(standings) = 3
    /\ standings[3].Hang = 3
    /\ standings[1].TeamID # strip(teams_df[1].team_id)
    /\ standings[1].Diem > standings[2].Diem

\* the status cells that are, trimmed and lowercased, one of finished, kết thúc,
\* ket thuc, done, ft
FinishedAsWritten == {"Done", "KẾT THÚC", "ket thuc ", " FT "}

\* the new row is a played match according to the definition of played
CountsAsPlayed(r) ==
    /\ IsNumberCell(r.home_goals) /\ IsNumberCell(r.away_goals)
    /\ ~HasStatusColumn \/ r.status \in FinishedAsWritten

\* C20: a new match row adds to the counters of its two teams if and only if
\* both goal cells are numeric and either the sheet has no status column or
\* the status is a finished one; any other row, scored or not, leaves every
\* counter as it was.
C20_DefinitionOfPlayed ==
    [][ (RowAdded /\ HeadersComplete)
        => \A t \in MatchTeams :
              /\ (CountsAsPlayed(last_row')
                    /\ t \in {last_row'.home_team_id, last_row'.away_team_id}
                    /\ HasRow(standings', t))
                   => Counters(standings', t).Tran = Counters(standings, t).Tran + 1
              /\ (~CountsAsPlayed(last_row')
                    \/ t \notin {last_row'.home_team_id, last_row'.away_team_id})
                   => Counters(standings', t) = Counters(standings, t)
      ]_vars

\* a scored row with status "live" sits next to a counted row with status
\* "KẾT THÚC": one match played for T1
C20_Witness ==
    /\ HasStatusColumn
    /\ Len(matches_df) = 2
    /\ matches_df[1].status = "KẾT THÚC" /\ matches_df[1].home_goals = "2"
    /\ matches_df[1].away_goals = "1" /\ matches_df[1].home_team_id = "T1"
    /\ matches_df[2].status = "live" /\ matches_df[2].home_goals = "1"
    /\ matches_df[2].away_goals = "1" /\ matches_df[2].away_team_id = "T1"
    /\ HasRow(standings, "T1") /\ Counters(standings, "T1").Tran = 1

\* without a status column a scored row counts whatever its status cell says
C20_WitnessNoStatusColumn ==
    /\ ~HasStatusColumn
    /\ Len(matches_df) = 1
    /\ matches_df[1].status = "scheduled" /\ matches_df[1].home_goals = "1"
    /\ matches_df[1].away_goals = "1"
    /\ HasRow(standings, "T1") /\ Counters(standings, "T1").Tran = 1

(***************************************************************************)
(* The administrator console: register player.  The roster rows carry the  *)
(* is_registered column the players tab shows.                             *)
(***************************************************************************)
ROSTER_CAP == 30

RosterRow(pid, name, team, reg) ==
    [player_id |-> pid, player_name |-> name, team_id |-> team, is_registered |-> reg]

\* the number of registered players of a team
registered_count(players, team) ==
    Cardinality({ i \in 1..Len(players) :
                    players[i].team_id = team /\ players[i].is_registered })

\* a plausible slip: the cap compared with > instead of >=
register_player_cap_after(players, pid, name, team) ==
    IF pid = "" \/ name = ""
    THEN [players |-> players, msg |-> "missing_field"]
    ELSE IF \E i \in 1..Len(players) : players[i].player_id = pid
    THEN [players |-> players, msg |-> "duplicate_id"]
    ELSE IF registered_count(players, team) > ROSTER_CAP
    THEN [players |-> players, msg |-> "roster_cap"]
    ELSE [players |-> Append(players, RosterRow(pid, name, team, TRUE)), msg |-> "saved"]

\* register player: the validations in order, then the insertion
register_player(players, pid, name, team) ==
    IF pid = "" \/ name = ""
    THEN [players |-> players, msg |-> "missing_field"]
    ELSE IF \E i \in 1..Len(players) : players[i].player_id = pid
    THEN [players |-> players, msg |-> "duplicate_id"]
    ELSE IF registered_count(players, team) >= ROSTER_CAP
    THEN [players |-> players, msg |-> "roster_cap"]
    ELSE [players |-> Append(players, RosterRow(pid, name, team, TRUE)), msg |-> "saved"]

(***************************************************************************)
(* Specification SpecRoster: the administrator registers players for two   *)
(* teams whose rosters are nearly full.                                    *)
(***************************************************************************)
MaxNewPlayers == 3

\* a players sheet: team T1 with k registered players and one player who is
\* not registered, team T2 with one registered player
Roster(k) ==
    [i \in 1..(k + 2) |->
        IF i <= k THEN RosterRow(ToString(i), "An", "T1", TRUE)
        ELSE IF i = k + 1 THEN RosterRow("u1", "Binh", "T1", FALSE)
        ELSE RosterRow("v1", "Chi", "T2", TRUE)]

NearlyFull == { ROSTER_CAP - 2, ROSTER_CAP - 1, ROSTER_CAP }

\* the ids typed into the form: none, one already taken, new ones
FormIds == {"", "1"} \cup { ToString(ROSTER_CAP + n) : n \in 1..MaxNewPlayers }
FormNames == {"", "Dung"}
FormTeams == {"T1", "T2"}

InitRoster ==
    /\ players_df \in { Roster(k) : k \in NearlyFull }
    /\ admin_msg = ""
    /\ last_row = RosterRow("", "", "", TRUE)
    /\ teams_df = <<>> /\ matches_df = <<>> /\ events_df = <<>>
    /\ match_cols = {}
    /\ fairplay = <<>> /\ card_pvt = <<>>
    /\ TEAM_LOGOS = <<>>
    /\ Tab1Idle
    /\ Tab2Idle
    /\ LoadIdle

\* the form is submitted
RegisterPlayer ==
    /\ \E pid \in FormIds, name \in FormNames, team \in FormTeams :
          LET res == register_player(players_df, pid, name, team)
          IN  /\ players_df' = res.players
              /\ admin_msg' = res.msg
              /\ last_row' = RosterRow(pid, name, team, TRUE)
    /\ UNCHANGED <<teams_df, matches_df, match_cols, events_df, knockout_df, grp,
                   standings, fairplay, card_pvt, bracket, summary, TEAM_LOGOS, load_vars>>

NextRoster == RegisterPlayer

SpecRoster == InitRoster /\ [][NextRoster]_vars

(***************************************************************************)
(* Properties of the roster (specification SpecRoster).                    *)
(***************************************************************************)
RegisteredOf(team) ==
    { i \in 1..Len(players_df) :
        players_df[i].team_id = team /\ players_df[i].is_registered }

\* C19: a registration for a team that already has 30 registered players is
\* rejected and leaves the players sheet with the rows it had; after every
\* registration no team has more than 30 registered players.
C19_RosterCapacity ==
    [][ (last_row' # last_row \/ admin_msg' # admin_msg \/ players_df' # players_df)
        => /\ Cardinality(RegisteredOf(last_row'.team_id)) = 30
                => (players_df' = players_df /\ admin_msg' # "saved")
           /\ \A t \in FormTeams : Cardinality(RegisteredOf(t)') <= 30
      ]_vars

\* the 30th player of T1 was registered through the form and the 31st, with
\* a valid new id and name, was turned away
C19_Witness ==
    /\ admin_msg = "roster_cap"
    /\ last_row.team_id = "T1" /\ last_row.player_id = "32" /\ last_row.player_name # ""
    /\ Cardinality(RegisteredOf("T1")) = 30
    /\ \E i \in 1..Len(players_df) : players_df[i].player_id = "31" /\ players_df[i].team_id = "T1"
    /\ \A i \in 1..Len(players_df) : players_df[i].player_id # "32"

(***************************************************************************)
(* Specification SpecEvents: cards are logged in an events sheet whose     *)
(* header row is written in one of several spellings, next to one played   *)
(* match, and the standings tab is rendered again.                         *)
(***************************************************************************)
MaxLoggedCards == 2

\* the header spellings of the team and type columns of the events sheet
EventHeaders == { <<"team_id", "event_type">>, <<"Team_ID", "event_type">>,
                  <<"team_id", " event_type ">> }

\* a row of get_all_records() under the header row hdr
EventRecord(hdr, t, et) ==
    [k \in {hdr[1], hdr[2], "player_id"} |->
        IF k = hdr[1] THEN t ELSE IF k = hdr[2] THEN et ELSE "P1"]

CardTeams == {"T1", "T2"}
CardTexts == {"yellow", "red", "goal"}

InitEvents ==
    /\ teams_df = <<TeamRow("T1", "Alpha"), TeamRow("T2", "Bravo"), TeamRow("T3", "Charlie")>>
    /\ match_cols = {"home_team_id", "away_team_id", "home_goals", "away_goals", "status"}
    /\ matches_df = <<MatchRow("T1", "T2", <<"2", "1", "finished">>)>>
    /\ events_df = <<>>
    /\ last_row = NoRow
    /\ standings = compute_standings(teams_df, matches_df, match_cols, events_df)
    /\ Tab2Idle
    /\ Tab3Idle
    /\ RestIdle

\* a card is appended to the events sheet, under the sheet's header row
LogCard ==
    /\ Len(events_df) < MaxLoggedCards
    /\ \E hdr \in EventHeaders, t \in CardTeams, et \in CardTexts :
          /\ events_df # <<>> => DOMAIN events_df[1] = {hdr[1], hdr[2], "player_id"}
          /\ events_df' = Append(events_df, EventRecord(hdr, t, et))
    /\ standings' = compute_standings(teams_df, matches_df, match_cols, events_df')
    /\ UNCHANGED <<teams_df, matches_df, match_cols, last_row, tab2_vars, tab3_vars, rest_vars>>

NextEvents == LogCard

SpecEvents == InitEvents /\ [][NextEvents]_vars

(***************************************************************************)
(* Properties of the events header (specification SpecEvents).             *)
(***************************************************************************)
\* the cell of an events row under the column called name, the header read
\* trimmed and in lower case
CellUnder(e, name) ==
    LET ks == { k \in DOMAIN e : lower(strip(k)) = name }
    IN  IF ks = {} THEN "" ELSE e[CHOOSE k \in ks : TRUE]

RECURSIVE CardPoints(_, _)
\* the fair-play points of a team over the first n rows of the events sheet
CardPoints(tid, n) ==
    IF n = 0 THEN 0
    ELSE CardPoints(tid, n - 1)
         + (IF CellUnder(events_df[n], "team_id") = tid
            THEN RulePoints(CellUnder(events_df[n], "event_type")) ELSE 0)

\* C21: the FairPlay column of the standings holds for every team the points
\* of its cards, whatever the spelling (letter case, blanks around) of the
\* team_id and event_type headers of the events sheet.
C21_EventHeaderTolerance ==
    \A i \in 1..Len(standings) :
        standings[i].FairPlay = CardPoints(standings[i].TeamID, Len(events_df))

(***************************************************************************)
(* The tables of the caller across a call of compute_standings: the        *)
(* function renames columns and coerces goals on copies (teams_df.copy(),  *)
(* matches_df.copy()) and compute_fairplay only reads the events.          *)
(***************************************************************************)
\* a plausible slip: tdf = teams_df, the working table is the caller's table
copy_alias(original, worked) == worked

\* x = df.copy(): what is done to x afterwards leaves the caller's df as it was
copy(original, worked) == original

\* tdf.columns = [c.strip().lower() for c in tdf.columns], on the rows of a table
rekey(tbl) ==
    [i \in 1..Len(tbl) |->
        [k2 \in { lower(strip(k)) : k \in DOMAIN tbl[i] } |->
            tbl[i][CHOOSE k \in DOMAIN tbl[i] : lower(strip(k)) = k2]]]

\* the text a goal cell shows after pd.to_numeric(errors="coerce")
coerced_cell(c) == IF notna(to_numeric(c)) THEN c ELSE "NaN"

\* mdf["home_goals"] = pd.to_numeric(...); mdf["away_goals"] = pd.to_numeric(...)
coerce_goals(mdf) ==
    [i \in 1..Len(mdf) |->
        [mdf[i] EXCEPT !.home_goals = coerced_cell(@), !.away_goals = coerced_cell(@)]]

\* the caller's tables after compute_standings(tdf, mdf, edf) has returned
inputs_after(tdf, mdf, cols, edf) ==
    IF tdf = <<>> \/ mdf = <<>>
    THEN [teams |-> tdf, matches |-> mdf, cols |-> cols, events |-> edf]
    ELSE [teams |-> copy(tdf, rekey(tdf)),
          cols |-> copy(cols, norm_columns(cols)),
          matches |-> IF need_cols \subseteq norm_columns(cols)
                      THEN copy(mdf, coerce_goals(mdf)) ELSE copy(mdf, mdf),
          events |-> edf]

(***************************************************************************)
(* Specification SpecSnapshot: rows are entered and the standings are      *)
(* computed; the tables are what the call leaves to its caller.            *)
(***************************************************************************)
MaxSnapshotRows == 2

SnapshotStatus == {"Done", "live"}

InitSnapshot ==
    /\ teams_df \in TeamTables
    /\ match_cols \in PlayedHeaders
    /\ matches_df = <<>>
    /\ events_df \in EventTables
    /\ last_row = NoRow
    /\ standings = compute_standings(teams_df, matches_df, match_cols, events_df)
    /\ Tab2Idle
    /\ Tab3Idle
    /\ RestIdle

\* a row is appended to the matches sheet and compute_standings is called on
\* the three tables
EnterAndCompute ==
    /\ Len(matches_df) < MaxSnapshotRows
    /\ \E pair \in PlayedPairs, sc \in ScoreCells, st \in SnapshotStatus :
          LET row == MatchRow(pair[1], pair[2], <<sc[1], sc[2], st>>)
              after == inputs_after(teams_df, Append(matches_df, row), match_cols, events_df)
          IN  /\ last_row' = row
              /\ standings' = compute_standings(teams_df, Append(matches_df, row),
                                                match_cols, events_df)
              /\ teams_df' = after.teams
              /\ matches_df' = after.matches
              /\ match_cols' = after.cols
              /\ events_df' = after.events
    /\ UNCHANGED <<tab2_vars, tab3_vars, rest_vars>>

NextSnapshot == EnterAndCompute

SpecSnapshot == InitSnapshot /\ [][NextSnapshot]_vars

(***************************************************************************)
(* Properties of the inputs (specification SpecSnapshot).                  *)
(***************************************************************************)
\* C22: a call of compute_standings (and of compute_fairplay within it)
\* leaves the caller's teams, matches and events tables as they were passed:
\* same header spelling, same rows, same cells.
C22_InputsAreSnapshots ==
    [][ last_row' # last_row
        => /\ match_cols' = match_cols
           /\ teams_df' = teams_df
           /\ events_df' = events_df
           /\ matches_df' = Append(matches_df, last_row') ]_vars

\* the standings were computed from a sheet whose header and cells are not in
\* the normal form the function works on, and the sheet still shows them
C22_Witness ==
    /\ standings # <<>>
    /\ "Status " \in match_cols
    /\ Len(matches_df) = 2
    /\ matches_df[1].away_goals = "" /\ matches_df[2].away_goals = "1"
    /\ \E i \in 1..Len(teams_df) : teams_df[i].team_id = "T2 "
    /\ events_df # <<>>

\* C23: in every row of the standings played = won + drawn + lost, goal
\* difference = goals for - goals against, and points = 3 * won + drawn.
C23_RowArithmetic ==
    \A i \in 1..Len(standings) :
        /\ standings[i].Tran = standings[i].Thang + standings[i].Hoa + standings[i].Thua
        /\ standings[i].HS = standings[i].BT - standings[i].BB
        /\ standings[i].Diem = 3 * standings[i].Thang + standings[i].Hoa

\* a team with one win 2-1 and one draw 1-1: 2 played, 4 points, 3 for, 2 against
C23_Witness ==
    \E i \in 1..Len(standings) :
        /\ standings[i].Tran = 2 /\ standings[i].Thang = 1 /\ standings[i].Hoa = 1
        /\ standings[i].BT = 3 /\ standings[i].BB = 2 /\ standings[i].HS = 1
        /\ standings[i].Diem = 4

\* the rows of the matches sheet that are played matches, and their teams
PlayedRows == { i \in 1..Len(matches_df) : CountsAsPlayed(matches_df[i]) }
DrawnRows == { i \in PlayedRows : matches_df[i].home_goals = matches_df[i].away_goals }
PlayedTeams ==
    UNION { {matches_df[i].home_team_id, matches_df[i].away_team_id} : i \in PlayedRows }

\* the ids of the teams sheet, trimmed
SheetTeams == { strip(teams_df[i].team_id) : i \in 1..Len(teams_df) } \ {""}

RECURSIVE ColumnSum(_, _)
\* the sum of a column over the first n rows of the standings
ColumnSum(col, n) == IF n = 0 THEN 0 ELSE ColumnSum(col, n - 1) + standings[n][col]

Total(col) == ColumnSum(col, Len(standings))

\* C26: when every team of a played match has its row in the teams sheet, the
\* standings conserve results: wins = losses, an even number of draws, goals
\* for = goals against, played = 2 * played matches, and points = 3 * decided
\* + 2 * drawn played matches.
C26_Conservation ==
    (HeadersComplete /\ PlayedTeams \subseteq SheetTeams)
    => /\ Total("Thang") = Total("Thua")
       /\ Total("Hoa") % 2 = 0
       /\ Total("BT") = Total("BB")
       /\ Total("Tran") = 2 * Cardinality(PlayedRows)
       /\ Total("Diem") = 3 * Cardinality(PlayedRows \ DrawnRows) + 2 * Cardinality(DrawnRows)

\* one decided and one drawn played match among three teams of the sheet,
\* next to nothing else: 5 points shared out
C26_Witness ==
    /\ Len(standings) = 3
    /\ PlayedTeams \subseteq SheetTeams
    /\ Cardinality(PlayedRows) = 2 /\ Cardinality(DrawnRows) = 1
    /\ Total("Diem") = 5 /\ Total("Tran") = 4 /\ Total("BT") = 5

(***************************************************************************)
(* Specification SpecPair: a teams sheet of two teams, T1 and T3; finished *)
(* matches among T1, T2 and T3 are entered and the standings rendered.     *)
(***************************************************************************)
MaxPairRows == 3

PairTables == { <<TeamRow("T1", "Alpha"), TeamRow("T3", "Charlie")>>,
                <<TeamRow("T3", "Charlie"), TeamRow("T1", "Alpha")>> }

PairCards == { <<>>, <<EventRow("T1", "P1", "yellow")>>, <<EventRow("T3", "P5", "yellow")>> }

PairFixtures == { <<"T1", "T2">>, <<"T2", "T3">>, <<"T3", "T1">> }

PairScores == { <<"2", "1">>, <<"0", "2">>, <<"1", "1">>, <<"0", "0">> }

InitPair ==
    /\ teams_df \in PairTables
    /\ match_cols = FullHeader
    /\ matches_df = <<>>
    /\ events_df \in PairCards
    /\ last_row = NoRow
    /\ standings = compute_standings(teams_df, matches_df, match_cols, events_df)
    /\ Tab2Idle
    /\ Tab3Idle
    /\ RestIdle

\* a finished result is appended to the matches sheet and the standings are rendered again
AddPairResult ==
    /\ Len(matches_df) < MaxPairRows
    /\ \E f \in PairFixtures, sc \in PairScores :
          /\ matches_df' = Append(matches_df, MatchRow(f[1], f[2], <<sc[1], sc[2], "finished">>))
          /\ last_row' = MatchRow(f[1], f[2], <<sc[1], sc[2], "finished">>)
    /\ standings' = compute_standings(teams_df, matches_df', match_cols, events_df)
    /\ UNCHANGED <<teams_df, match_cols, events_df, tab2_vars, tab3_vars, rest_vars>>

NextPair == AddPairResult

SpecPair == InitPair /\ [][NextPair]_vars

(***************************************************************************)
(* Properties of the two-team table (specification SpecPair).              *)
(***************************************************************************)
\* the matches between T1 and T3, and what T1 took from them
DirectRows ==
    { i \in 1..Len(matches_df) :
        {matches_df[i].home_team_id, matches_df[i].away_team_id} = {"T1", "T3"} }

\* goals of T1 and of T3 in a direct match
DirectGoals(i) ==
    IF matches_df[i].home_team_id = "T1"
    THEN << CellNumber[matches_df[i].home_goals], CellNumber[matches_df[i].away_goals] >>
    ELSE << CellNumber[matches_df[i].away_goals], CellNumber[matches_df[i].home_goals] >>

T1Wins == Cardinality({ i \in DirectRows : DirectGoals(i)[1] > DirectGoals(i)[2] })
T3Wins == Cardinality({ i \in DirectRows : DirectGoals(i)[1] < DirectGoals(i)[2] })

RECURSIVE DirectSum(_, _)
\* goals of side k (1 for T1, 2 for T3) over the direct matches among the first n rows
DirectSum(k, n) ==
    IF n = 0 THEN 0
    ELSE DirectSum(k, n - 1) + (IF n \in DirectRows THEN DirectGoals(n)[k] ELSE 0)

\* no direct match, or a mini-table tied on points, goal difference and goals
MiniTableTied ==
    /\ T1Wins = T3Wins
    /\ DirectSum(1, Len(matches_df)) = DirectSum(2, Len(matches_df))

\* row a comes before row b by goal difference, goals for, fair play, team id
BeforeBySeason(a, b) ==
    \/ a.HS > b.HS
    \/ a.HS = b.HS /\ a.BT > b.BT
    \/ a.HS = b.HS /\ a.BT = b.BT /\ a.FairPlay < b.FairPlay
    \/ a.HS = b.HS /\ a.BT = b.BT /\ a.FairPlay = b.FairPlay
         /\ a.TeamID = "T1" /\ b.TeamID = "T3"

\* C25: of two teams without a direct match, or tied in their mini-table, the
\* one with the higher goal difference is ranked first, then the one with
\* more goals for, then the one with fewer fair-play points, then the smaller
\* team id; league points are not consulted.
C25_PointsNotACriterion ==
    (Len(standings) = 2 /\ MiniTableTied) => BeforeBySeason(standings[1], standings[2])

\* the team ranked first has fewer league points than the team ranked second
C25_Witness ==
    /\ Len(standings) = 2
    /\ MiniTableTied
    /\ DirectRows = {}
    /\ standings[1].Diem < standings[2].Diem
    /\ standings[1].HS > standings[2].HS

\* a mini-table tied by a direct draw, the two teams then level on goal
\* difference and goals for, decided by fair play
C25_WitnessMiniTable ==
    /\ Len(standings) = 2
    /\ Cardinality(DirectRows) = 1 /\ Len(matches_df) = 3
    /\ MiniTableTied
    /\ standings[1].HS = standings[2].HS /\ standings[1].BT = standings[2].BT
    /\ standings[1].FairPlay < standings[2].FairPlay

\* C27: a load that failed is kept like one that succeeded: every load of the
\* same worksheet less than 60 seconds after the failure returns the empty
\* table and repeats the notice without contacting the service, also when the
\* worksheet can be read by then; and no load fetches more than once.
C27_FailuresAreCached ==
    [][LoadStep =>
        \A ws \in {Worksheets[pc]} :
            /\ (ws \in DOMAIN cache /\ cache[ws].notice # {} /\ now - cache[ws].at < 60)
                 => /\ TableOf(ws)' = <<>>
                    /\ last_load'.ops = {} /\ last_load'.fetches = 0
                    /\ calls' = calls
                    /\ cache[ws].notice \subseteq notices'
            /\ last_load'.fetches <= 1]_vars

\* the spreadsheet was shared after the failed load of the teams worksheet,
\* and 30 seconds after the failure the load still gives the empty table
C27_Witness ==
    /\ last_load # <<>> /\ last_load.ws = "teams" /\ last_load.hit
    /\ teams_df = <<>>
    /\ service.condition = "ok"
    /\ [ws |-> "teams", error |-> "denied"] \in notices
    /\ now - last_load.at = 30

====
